---- MODULE Spec2Model ----
(***************************************************************************)
(* Attendance & payroll ledger of clock_bot (src/clock_bot.py, with the    *)
(* legacy revision src/botfunctions.py): the Telegram handlers that write  *)
(* the tables drivers, clock_logs, ot_logs, claims and salary_payments.    *)
(*                                                                         *)
(* The state is the committed content of the database, the pooled          *)
(* connections that are in the middle of a handler (a handler that reads   *)
(* with SELECT and writes later is two steps: other handlers may commit    *)
(* in between, PostgreSQL's READ COMMITTED), every user's conversation     *)
(* states and user_data, and the last reply a handler sent.                *)
(***************************************************************************)
EXTENDS Integers, FiniteSets, Sequences, TLC

\* ------------------------------------------------------------------ bounds
MaxWorkers == 1
MaxTime == 3
TicksPerDay == 2
DaysPerMonth == 2
MaxConn == 2
MaxClaims == 1
MaxPayments == 2
MaxOt == 2
MaxAmount == 1
MaxTotalHours == 3
SeedClaims == 3

\* ------------------------------------------------------- program constants
\* SQL NULL, and the legacy off-day marker 'OFF' stored in clock_in.
NULL == -1
OFF == -2
\* salary given to a driver row created by /start (0.0) and by /clockin
\* (column default 0.0).
START_SALARY == 0
\* float("nan"): the value float() returns for the text 'nan'.
NAN == -3
\* A text in the VARCHAR(30) column clock_in or clock_out that strptime
\* rejects with ValueError.
GARBLED == -4

\* a <= 0 and a + b on floats: every comparison with NaN is false and every
\* sum with NaN is NaN.
FloatLeqZero(a) == a # NAN /\ a <= 0
FloatAdd(a, b) == IF a = NAN \/ b = NAN THEN NAN ELSE a + b

Workers == 1..MaxWorkers
\* ADMIN_IDS: two administrators, distinct from the workers.
ADMIN_IDS == {MaxWorkers + 1, MaxWorkers + 2}
Users == Workers \cup ADMIN_IDS
Conns == 1..MaxConn
Times == 0..MaxTime
Amounts == 1..MaxAmount

\* ------------------------------------------------------------------- state
VARIABLES
    now,            \* the wall clock (ticks)
    drivers,        \* table drivers: set of rows
    clock_logs,     \* table clock_logs: set of rows
    ot_logs,        \* table ot_logs: set of rows
    claims,         \* table claims: set of rows
    salary_payments,\* table salary_payments: set of rows
    monthly_reports,\* table monthly_reports: set of rows
    tx,             \* pooled connections: what the handler holding it has read
    conv,           \* conversation state per user and ConversationHandler
    user_data,      \* context.user_data per user
    reply,          \* the last reply_text sent: [user, msg]
    acq             \* per user: the get_db_connection call waiting for its retry

vars == <<now, drivers, clock_logs, ot_logs, claims, salary_payments,
          monthly_reports, tx, conv, user_data, reply, acq>>

\* ----------------------------------------------------------------- helpers
\* now.date(): the calendar day of a tick.
DateOf(t) == t \div TicksPerDay

\* today.replace(day=1) .. last day of the month, as the set of its days.
FirstDay(d) == (d \div DaysPerMonth) * DaysPerMonth
LastDay(d) == FirstDay(d) + DaysPerMonth - 1

\* datetime.strptime(s, "%Y-%m-%d %H:%M:%S") of a stored clock_in/clock_out:
\* the tick it denotes, or NULL (ValueError) when the text is no timestamp.
Strptime(s) == IF s \in Times THEN s ELSE NULL

\* now.strftime("%Y-%m-%d %H:%M:%S")
Strftime(t) == t

IdleTx == [op |-> "idle", user |-> 0, at |-> 0, has_log |-> FALSE, seen |-> NULL,
           held |-> FALSE]

\* db_pool.getconn(): a connection no handler holds.
FreeConns == {c \in Conns : ~tx[c].held}

\* A release that loses the connection: putconn is not reached.
release_db_connection_Leak(conn) == conn

\* release_db_connection -> db_pool.putconn(conn): the connection is back in
\* the pool.
release_db_connection(conn) == [conn EXCEPT !.held = FALSE]

\* The handler returns: its locals are gone, the connection is where the
\* handler left it.
Return(conn) == [IdleTx EXCEPT !.held = conn.held]

\* No get_db_connection call of the user is between its two attempts.
IdleAcq == [pc |-> "idle", op |-> "none", at |-> 0, attempts |-> 0]

\* The handler op of user u is at a getconn() of get_db_connection: the first
\* one of a new call, or the second one of the call that waited.
Calling(u, op) == acq[u].pc = "idle" \/ acq[u].op = op

\* The time the handler read before it called get_db_connection.
CallTime(u) == IF acq[u].pc = "sleeping" THEN acq[u].at ELSE now

\* SELECT ... FROM clock_logs WHERE user_id = u AND date = d
LogsOf(u, d) == {r \in clock_logs : r.user_id = u /\ r.date = d}

\* SELECT user_id FROM drivers WHERE user_id = u
DriverRows(u) == {r \in drivers : r.user_id = u}

\* clock_logs.user_id REFERENCES drivers(user_id)
ForeignKeyOk(u) == DriverRows(u) # {}

NoUserData == [target_user_id |-> NULL, has_figures |-> FALSE,
               monthly_salary |-> 0, claims_amount |-> 0, month_hours |-> 0,
               ot_hours |-> 0, work_days |-> 0, off_days |-> 0,
               first_day |-> 0, last_day |-> 0,
               claim_amount |-> NULL, selected_worker |-> NULL,
               new_salary |-> NULL, settled_for |-> NULL,
               counted_claims |-> {}, counted_logs |-> {}, counted_ot |-> {}]

NoConv == [clock |-> "END", claim |-> "END", paid |-> "END", salary |-> "END",
           previousreport |-> "END", checkstate |-> "END", viewclaims |-> "END"]

Init ==
    /\ now = 0
    /\ drivers = {}
    /\ clock_logs = {}
    /\ ot_logs = {}
    /\ claims = {}
    /\ salary_payments = {}
    /\ monthly_reports = {}
    /\ tx = [c \in Conns |-> IdleTx]
    /\ acq = [u \in Users |-> IdleAcq]
    /\ conv = [u \in Users |-> NoConv]
    /\ user_data = [u \in Users |-> NoUserData]
    /\ reply = [user |-> 0, msg |-> "none"]

Say(u, m) == reply' = [user |-> u, msg |-> m]

\* ------------------------------------------------------------------- clock
Tick ==
    /\ now < MaxTime
    /\ now' = now + 1
    /\ UNCHANGED <<acq, drivers, clock_logs, ot_logs, claims, salary_payments,
                   monthly_reports, tx, conv, user_data, reply>>

\* datetime.now() reads the wall clock of the host, which an adjustment of
\* the clock sets back.
SkewBack ==
    /\ now > 0
    /\ now' = now - 1
    /\ UNCHANGED <<acq, drivers, clock_logs, ot_logs, claims, salary_payments,
                   monthly_reports, tx, conv, user_data, reply>>

\* ------------------------------------------------------------ table writes
\* INSERT INTO drivers (user_id, ..., monthly_salary) when no row exists.
EnsureDriver(rows, u, salary) ==
    IF \E r \in rows : r.user_id = u THEN rows
    ELSE rows \cup {[user_id |-> u, monthly_salary |-> salary, total_hours |-> 0,
                     balance |-> 0]}

\* A new clock_logs row; id is the SERIAL primary key.
NewLog(logs, u, d, cin, off) ==
    [id |-> Cardinality(logs) + 1, user_id |-> u, date |-> d, clock_in |-> cin,
     clock_out |-> NULL, is_off |-> off, paid |-> FALSE]

\* Mutant of UpsertClockIn: a plain INSERT on a table without the
\* UNIQUE(user_id, date) constraint.
UpsertClockIn_PlainInsert(logs, u, d, cin) == logs \cup {NewLog(logs, u, d, cin, FALSE)}

\* Mutant of UpsertClockIn: ON CONFLICT (user_id, date) DO NOTHING.
UpsertClockIn_KeepFirst(logs, u, d, cin) ==
    IF \E r \in logs : r.user_id = u /\ r.date = d THEN logs
    ELSE logs \cup {NewLog(logs, u, d, cin, FALSE)}

\* INSERT INTO clock_logs (user_id, date, clock_in, ...) VALUES (...)
\* ON CONFLICT (user_id, date) DO UPDATE SET clock_in = ..., is_off = FALSE
UpsertClockIn(logs, u, d, cin) ==
    IF \E r \in logs : r.user_id = u /\ r.date = d
    THEN {IF r.user_id = u /\ r.date = d
          THEN [r EXCEPT !.clock_in = cin, !.is_off = FALSE] ELSE r : r \in logs}
    ELSE logs \cup {NewLog(logs, u, d, cin, FALSE)}

\* Mutant of SetClockOut: the UPDATE without 'AND date = d' closes every
\* record of the worker.
SetClockOut_AnyDate(logs, u, d, t) ==
    {IF r.user_id = u THEN [r EXCEPT !.clock_out = t] ELSE r : r \in logs}

\* UPDATE clock_logs SET clock_out = t WHERE user_id = u AND date = d
SetClockOut(logs, u, d, t) ==
    {IF r.user_id = u /\ r.date = d THEN [r EXCEPT !.clock_out = t] ELSE r : r \in logs}

\* UPDATE clock_logs SET clock_in = cin, clock_out = NULL, is_off = TRUE
\* WHERE user_id = u AND date = d
SetOffDay(logs, u, d, cin) ==
    {IF r.user_id = u /\ r.date = d
     THEN [r EXCEPT !.clock_in = cin, !.clock_out = NULL, !.is_off = TRUE]
     ELSE r : r \in logs}

\* UPDATE drivers SET total_hours = total_hours + h WHERE user_id = u
AddHours(rows, u, h) ==
    {IF r.user_id = u THEN [r EXCEPT !.total_hours = @ + h] ELSE r : r \in rows}

\* Mutant of PutConn: the connection is returned without the rollback (what
\* an autocommit connection would leave behind).
PutConn_NoRollback(committed, staged, done) == staged

\* release_db_connection -> pool.putconn: a connection returned in the middle
\* of a transaction is rolled back; after conn.commit() the writes stay.
PutConn(committed, staged, done) == IF done THEN staged ELSE committed

\* -------------------------------------------------------------- attendance
\* /start: creates the driver row with monthly_salary 0.0.
start(u) ==
    /\ drivers' = EnsureDriver(drivers, u, START_SALARY)
    /\ Say(u, "welcome")
    /\ UNCHANGED <<acq, now, clock_logs, ot_logs, claims, salary_payments,
                   monthly_reports, tx, conv, user_data>>

\* /clockin: creates the driver row when missing and asks for the location.
clockin(u) ==
    /\ drivers' = EnsureDriver(drivers, u, START_SALARY)
    /\ conv' = [conv EXCEPT ![u].clock = "WAITING_LOCATION"]
    /\ Say(u, "share_location")
    /\ UNCHANGED <<acq, now, clock_logs, ot_logs, claims, salary_payments,
                   monthly_reports, tx, user_data>>

\* The answers of get_address_from_location that handle_location rejects.
GeoRejected == {"Address not available", "Address lookup failed"}
GeoAnswers == {"address", "Location details not available"} \cup GeoRejected

\* The location message in state WAITING_LOCATION: one INSERT ... ON CONFLICT
\* DO UPDATE statement and its commit.
handle_location(u, address) ==
    /\ conv[u].clock = "WAITING_LOCATION"
    /\ conv' = [conv EXCEPT ![u].clock = "END"]
    /\ IF address \in GeoRejected
       THEN /\ Say(u, "no_location")
            /\ UNCHANGED clock_logs
       ELSE IF ~ForeignKeyOk(u)
       THEN /\ Say(u, "clockin_error")
            /\ UNCHANGED clock_logs
       ELSE /\ clock_logs' = UpsertClockIn(clock_logs, u, DateOf(now), Strftime(now))
            /\ Say(u, "clocked_in")
    /\ UNCHANGED <<acq, now, drivers, ot_logs, claims, salary_payments,
                   monthly_reports, tx, user_data>>

\* Mutant of NotClockedIn: the marker 'OFF' passes for a clock-in time.
NotClockedIn_OffIsATime(log) == log = {} \/ (\A r \in log : r.clock_in = NULL)

\* if not log or not log[0] or log[0] == "OFF"
NotClockedIn(log) == log = {} \/ (\A r \in log : r.clock_in = NULL \/ r.clock_in = OFF)

\* /clockout up to its early return: reads today's clock_in.
clockout_select(u, c) ==
    /\ c \in FreeConns
    /\ \A r \in DriverRows(u) : r.total_hours < MaxTotalHours /\ r.total_hours > -MaxTotalHours
    /\ \A k \in FreeConns : c <= k
    /\ Calling(u, "clockout")
    /\ acq' = [acq EXCEPT ![u] = IdleAcq]
    /\ LET log == LogsOf(u, DateOf(CallTime(u))) IN
       IF NotClockedIn(log)
       THEN /\ Say(u, "not_clocked_in")
            /\ UNCHANGED tx
       ELSE /\ tx' = [tx EXCEPT ![c] = [op |-> "clockout", user |-> u, at |-> CallTime(u),
                                        has_log |-> TRUE,
                                        seen |-> (CHOOSE r \in log : TRUE).clock_in,
                                        held |-> TRUE]]
            /\ UNCHANGED reply
    /\ UNCHANGED <<now, drivers, clock_logs, ot_logs, claims, salary_payments,
                   monthly_reports, conv, user_data>>

\* The statement of /clockout's transaction that raises: none, the UPDATE of
\* clock_logs or the UPDATE of drivers.
ClockoutFailAt == 0..2

\* /clockout from the UPDATE of clock_out to the commit. A clock_in that
\* strptime rejects returns before the commit and a statement that raises
\* goes to the except branch: putconn rolls back what was written.
clockout_commit(c, fail_at) ==
    /\ tx[c].op = "clockout"
    /\ tx' = [tx EXCEPT ![c] = Return(release_db_connection(tx[c]))]
    /\ LET u == tx[c].user
           in_time == Strptime(tx[c].seen)
           committed == [clock_logs |-> clock_logs, drivers |-> drivers]
           s1 == IF fail_at = 1 THEN committed
                 ELSE [committed EXCEPT
                         !.clock_logs = SetClockOut(@, u, DateOf(tx[c].at), Strftime(tx[c].at))]
           parsed == fail_at # 1 /\ in_time # NULL
           done == parsed /\ fail_at = 0
           s2 == IF done THEN [s1 EXCEPT !.drivers = AddHours(@, u, tx[c].at - in_time)]
                 ELSE s1
           after == PutConn(committed, s2, done)
       IN /\ clock_logs' = after.clock_logs
          /\ drivers' = after.drivers
          /\ Say(u, IF done THEN "clocked_out"
                    ELSE IF fail_at # 1 /\ in_time = NULL THEN "clock_in_unreadable"
                    ELSE "clockout_error")
    /\ UNCHANGED <<acq, now, ot_logs, claims, salary_payments, monthly_reports,
                   conv, user_data>>

\* The off-day test of clock_bot.py: any non-null clock_in or clock_out.
HasClockRecords(r) == r.clock_in # NULL \/ r.clock_out # NULL

\* The off-day test of botfunctions.py: 'OFF' in clock_in counts as empty.
bf_HasClockRecords(r) == r.clock_in \notin {NULL, OFF} \/ r.clock_out # NULL

\* /offday up to its early return: reads today's clock_in and clock_out.
OffdaySelect(u, c, op, blocked) ==
    /\ c \in FreeConns
    /\ \A k \in FreeConns : c <= k
    /\ Calling(u, op)
    /\ acq' = [acq EXCEPT ![u] = IdleAcq]
    /\ LET log == LogsOf(u, DateOf(CallTime(u))) IN
       IF blocked
       THEN /\ Say(u, "offday_conflict")
            /\ UNCHANGED tx
       ELSE /\ tx' = [tx EXCEPT ![c] = [op |-> op, user |-> u, at |-> CallTime(u),
                                        has_log |-> (log # {}), seen |-> NULL,
                                        held |-> TRUE]]
            /\ UNCHANGED reply
    /\ UNCHANGED <<now, drivers, clock_logs, ot_logs, claims, salary_payments,
                   monthly_reports, conv, user_data>>

offday_select(u, c) ==
    OffdaySelect(u, c, "offday",
                 \E r \in LogsOf(u, DateOf(CallTime(u))) : HasClockRecords(r))

bf_offday_select(u, c) ==
    OffdaySelect(u, c, "bf_offday",
                 \E r \in LogsOf(u, DateOf(CallTime(u))) : bf_HasClockRecords(r))

\* /offday from its UPDATE or INSERT to the commit. The INSERT raises on
\* UNIQUE(user_id, date) and on the foreign key to drivers; the handler
\* answers with the error text and putconn rolls back.
OffdayCommit(c, op, cin) ==
    /\ tx[c].op = op
    /\ tx' = [tx EXCEPT ![c] = Return(release_db_connection(tx[c]))]
    /\ LET u == tx[c].user
           d == DateOf(tx[c].at)
       IN IF tx[c].has_log
          THEN /\ clock_logs' = SetOffDay(clock_logs, u, d, cin)
               /\ Say(u, "offday_ok")
          ELSE IF LogsOf(u, d) # {} \/ ~ForeignKeyOk(u)
          THEN /\ Say(u, "offday_error")
               /\ UNCHANGED clock_logs
          ELSE /\ clock_logs' = clock_logs \cup {NewLog(clock_logs, u, d, cin, TRUE)}
               /\ Say(u, "offday_ok")
    /\ UNCHANGED <<acq, now, drivers, ot_logs, claims, salary_payments,
                   monthly_reports, conv, user_data>>

offday_commit(c) == OffdayCommit(c, "offday", NULL)

bf_offday_commit(c) == OffdayCommit(c, "bf_offday", OFF)

\* ---------------------------------------------------------------- overtime
\* SELECT id, start_time FROM ot_logs
\* WHERE user_id = u AND date = d AND end_time IS NULL
OngoingOt(u, d) == {r \in ot_logs : r.user_id = u /\ r.date = d /\ r.end_time = NULL}

\* /OT up to the SELECT of the open session (fetchone: any one of them).
ot_select(u, c) ==
    /\ c \in FreeConns
    /\ \A k \in FreeConns : c <= k
    /\ Calling(u, "ot")
    /\ acq' = [acq EXCEPT ![u] = IdleAcq]
    /\ LET ongoing == OngoingOt(u, DateOf(CallTime(u))) IN
       \/ /\ ongoing = {}
          /\ Cardinality(ot_logs) < MaxOt
          /\ tx' = [tx EXCEPT ![c] = [op |-> "ot", user |-> u, at |-> CallTime(u),
                                      has_log |-> FALSE, seen |-> NULL, held |-> TRUE]]
       \/ \E r \in ongoing :
             tx' = [tx EXCEPT ![c] = [op |-> "ot", user |-> u, at |-> CallTime(u),
                                      has_log |-> TRUE, seen |-> r.id, held |-> TRUE]]
    /\ UNCHANGED <<now, drivers, clock_logs, ot_logs, claims, salary_payments,
                   monthly_reports, conv, user_data, reply>>

\* /OT from its INSERT (open a session) or UPDATE (close the one read) to the
\* commit. The INSERT raises on the foreign key to drivers.
ot_commit(c) ==
    /\ tx[c].op = "ot"
    /\ tx' = [tx EXCEPT ![c] = Return(release_db_connection(tx[c]))]
    /\ LET u == tx[c].user
           t == tx[c].at
       IN IF tx[c].has_log
          THEN /\ ot_logs' = {IF r.id = tx[c].seen
                              THEN [r EXCEPT !.end_time = t, !.duration = t - r.start_time]
                              ELSE r : r \in ot_logs}
               /\ Say(u, "ot_completed")
          ELSE IF ~ForeignKeyOk(u)
          THEN /\ Say(u, "ot_error")
               /\ UNCHANGED ot_logs
          ELSE /\ ot_logs' = ot_logs \cup
                      {[id |-> Cardinality(ot_logs) + 1, user_id |-> u, date |-> DateOf(t),
                        start_time |-> t, end_time |-> NULL, duration |-> 0,
                        paid |-> FALSE]}
               /\ Say(u, "ot_started")
    /\ UNCHANGED <<acq, now, drivers, clock_logs, claims, salary_payments,
                   monthly_reports, conv, user_data>>

\* ---------------------------------------------------------- pool exhaustion
\* get_db_connection: the first db_pool.getconn() of handler op raised
\* PoolError (no connection is free); the call logs and goes into
\* time.sleep(1). The handler read the time before the call.
get_db_connection_wait(u, op) ==
    /\ acq[u].pc = "idle"
    /\ FreeConns = {}
    /\ acq' = [acq EXCEPT ![u] = [pc |-> "sleeping", op |-> op, at |-> now,
                                  attempts |-> 1]]
    /\ UNCHANGED <<now, drivers, clock_logs, ot_logs, claims, salary_payments,
                   monthly_reports, tx, conv, user_data, reply>>

\* A second getconn() that fails and sleeps again instead of raising.
get_db_connection_raise_Again(u) ==
    /\ acq[u].pc = "sleeping"
    /\ FreeConns = {}
    /\ acq[u].attempts < MaxConn + 2
    /\ acq' = [acq EXCEPT ![u].attempts = @ + 1]
    /\ UNCHANGED <<now, drivers, clock_logs, ot_logs, claims, salary_payments,
                   monthly_reports, tx, conv, user_data, reply>>

\* get_db_connection: the second getconn() raised too; the exception is
\* re-raised, leaves the handler (the call stands before its try) and
\* reaches error_handler, which answers. The second getconn() that succeeds
\* is the first step of the handler (clockout_select, offday_select,
\* ot_select).
get_db_connection_raise(u) ==
    /\ acq[u].pc = "sleeping"
    /\ FreeConns = {}
    /\ acq' = [acq EXCEPT ![u] = IdleAcq]
    /\ Say(u, "error")
    /\ UNCHANGED <<now, drivers, clock_logs, ot_logs, claims, salary_payments,
                   monthly_reports, tx, conv, user_data>>

\* ------------------------------------------------------------------ claims
\* /claim
claim_start(u) ==
    /\ conv' = [conv EXCEPT ![u].claim = "CLAIM_TYPE"]
    /\ Say(u, "select_claim_type")
    /\ UNCHANGED <<acq, now, drivers, clock_logs, ot_logs, claims, salary_payments,
                   monthly_reports, tx, user_data>>

\* A text in state CLAIM_TYPE: 'Other' asks for the type, any other text is
\* the type.
claim_type(u, other) ==
    /\ conv[u].claim = "CLAIM_TYPE"
    /\ conv' = [conv EXCEPT ![u].claim = IF other THEN "CLAIM_OTHER_TYPE" ELSE "CLAIM_AMOUNT"]
    /\ Say(u, IF other THEN "specify_claim_type" ELSE "enter_amount")
    /\ UNCHANGED <<acq, now, drivers, clock_logs, ot_logs, claims, salary_payments,
                   monthly_reports, tx, user_data>>

claim_other_type(u) ==
    /\ conv[u].claim = "CLAIM_OTHER_TYPE"
    /\ conv' = [conv EXCEPT ![u].claim = "CLAIM_AMOUNT"]
    /\ Say(u, "enter_amount")
    /\ UNCHANGED <<acq, now, drivers, clock_logs, ot_logs, claims, salary_payments,
                   monthly_reports, tx, user_data>>

\* A text in state CLAIM_AMOUNT: float(text), NULL for a text float() rejects.
claim_amount(u, amount) ==
    /\ conv[u].claim = "CLAIM_AMOUNT"
    /\ IF amount = NULL
       THEN /\ Say(u, "enter_valid_number")
            /\ UNCHANGED <<conv, user_data>>
       ELSE IF FloatLeqZero(amount)
       THEN /\ Say(u, "amount_must_be_positive")
            /\ UNCHANGED <<conv, user_data>>
       ELSE /\ user_data' = [user_data EXCEPT ![u].claim_amount = amount]
            /\ conv' = [conv EXCEPT ![u].claim = "CLAIM_PROOF"]
            /\ Say(u, "send_proof")
    /\ UNCHANGED <<acq, now, drivers, clock_logs, ot_logs, claims, salary_payments,
                   monthly_reports, tx>>

\* A claim_proof that also credits the claimed amount to drivers.balance.
claim_proof_Credit(u) ==
    /\ conv[u].claim = "CLAIM_PROOF"
    /\ Cardinality(claims) < MaxClaims
    /\ conv' = [conv EXCEPT ![u].claim = "END"]
    /\ user_data' = [user_data EXCEPT ![u] = NoUserData]
    /\ IF ~ForeignKeyOk(u)
       THEN /\ Say(u, "claim_error")
            /\ UNCHANGED <<claims, drivers>>
       ELSE /\ claims' = claims \cup
                    {[id |-> Cardinality(claims) + 1, user_id |-> u,
                      amount |-> user_data[u].claim_amount, date |-> DateOf(now),
                      photo_file_id |-> "photo", status |-> "PENDING"]}
            /\ drivers' = {IF r.user_id = u
                           THEN [r EXCEPT !.balance = FloatAdd(@, user_data[u].claim_amount)]
                           ELSE r : r \in drivers}
            /\ Say(u, "claim_submitted")
    /\ UNCHANGED <<acq, now, clock_logs, ot_logs, salary_payments, monthly_reports, tx>>

\* A photo in state CLAIM_PROOF: INSERT INTO claims ... 'PENDING', commit,
\* user_data.clear(). The INSERT raises on the foreign key to drivers.
claim_proof(u) ==
    /\ conv[u].claim = "CLAIM_PROOF"
    /\ Cardinality(claims) < MaxClaims
    /\ conv' = [conv EXCEPT ![u].claim = "END"]
    /\ user_data' = [user_data EXCEPT ![u] = NoUserData]
    /\ IF ~ForeignKeyOk(u)
       THEN /\ Say(u, "claim_error")
            /\ UNCHANGED claims
       ELSE /\ claims' = claims \cup
                    {[id |-> Cardinality(claims) + 1, user_id |-> u,
                      amount |-> user_data[u].claim_amount, date |-> DateOf(now),
                      photo_file_id |-> "photo", status |-> "PENDING"]}
            /\ Say(u, "claim_submitted")
    /\ UNCHANGED <<acq, now, drivers, clock_logs, ot_logs, salary_payments,
                   monthly_reports, tx>>

\* /cancel, the fallback of every ConversationHandler. The handlers are asked
\* in the order of their registration (claim, paid, clockin) and a state that
\* takes any text takes '/cancel' as its text, so the fallback runs for the
\* claim conversation waiting for the photo, else for the clock-in
\* conversation when no other conversation of the user takes the text.
cancel(u) ==
    /\ IF conv[u].claim = "CLAIM_PROOF"
       THEN conv' = [conv EXCEPT ![u].claim = "END"]
       ELSE /\ conv[u].claim = "END" /\ conv[u].paid = "END"
            /\ conv[u].clock = "WAITING_LOCATION"
            /\ conv' = [conv EXCEPT ![u].clock = "END"]
    /\ Say(u, "cancelled")
    /\ UNCHANGED <<acq, now, drivers, clock_logs, ot_logs, claims, salary_payments,
                   monthly_reports, tx, user_data>>

\* The texts sent as a claim amount: no number, 'nan', 0, or a positive amount.
AmountTexts == {NULL, NAN, 0} \cup Amounts

\* ------------------------------------------------------------- settlement
RECURSIVE SumAmount(_)
\* SUM(amount) over a set of claims rows
SumAmount(S) ==
    IF S = {} THEN 0
    ELSE LET r == CHOOSE x \in S : TRUE IN FloatAdd(r.amount, SumAmount(S \ {r}))

RECURSIVE SumDuration(_)
\* SUM(duration) over a set of ot_logs rows
SumDuration(S) ==
    IF S = {} THEN 0
    ELSE LET r == CHOOSE x \in S : TRUE IN r.duration + SumDuration(S \ {r})

\* The hours one clock_logs row adds to month_hours: a row that is no
\* off-day, has both clock values, neither 'OFF', both readable by strptime,
\* and a positive difference; otherwise nothing.
LogHours(r) ==
    IF ~r.is_off /\ r.clock_in # NULL /\ r.clock_out # NULL
       /\ r.clock_in # OFF /\ r.clock_out # OFF
       /\ Strptime(r.clock_in) # NULL /\ Strptime(r.clock_out) # NULL
       /\ Strptime(r.clock_out) - Strptime(r.clock_in) > 0
    THEN Strptime(r.clock_out) - Strptime(r.clock_in)
    ELSE 0

\* The rows whose timestamps strptime rejects are the rows the loop reaches
\* the parse with: no off-day, both clock values present, neither 'OFF'.
Unparseable(r) ==
    /\ ~r.is_off /\ r.clock_in # NULL /\ r.clock_out # NULL
    /\ r.clock_in # OFF /\ r.clock_out # OFF
    /\ (Strptime(r.clock_in) = NULL \/ Strptime(r.clock_out) = NULL)

\* A loop without the except clause: the ValueError of an unparseable row
\* leaves the loop.
LogRaises_Uncaught(r) == Unparseable(r)

\* The exception a row raises out of the loop over the rows of the period:
\* none, the loop body catches (ValueError, TypeError) and continues.
LogRaises(r) == FALSE

RECURSIVE SumHours(_)
\* month_hours: the loop over the rows of the period
SumHours(S) ==
    IF S = {} THEN 0
    ELSE LET r == CHOOSE x \in S : TRUE IN LogHours(r) + SumHours(S \ {r})

\* ... FROM clock_logs WHERE user_id = u AND date BETWEEN first AND last
PeriodLogs(logs, u, first, last) ==
    {r \in logs : r.user_id = u /\ first <= r.date /\ r.date <= last}

\* ... FROM ot_logs WHERE user_id = u AND date BETWEEN first AND last
PeriodOt(ots, u, first, last) ==
    {r \in ots : r.user_id = u /\ first <= r.date /\ r.date <= last}

\* ... FROM ot_logs WHERE ... AND end_time IS NOT NULL
ClosedOt(ots, u, first, last) ==
    {r \in PeriodOt(ots, u, first, last) : r.end_time # NULL}

\* The same SELECT without the condition on status.
PendingClaims_AnyStatus(cl, u, first, last) ==
    {r \in cl : r.user_id = u /\ first <= r.date /\ r.date <= last}

\* ... FROM claims WHERE user_id = u AND date BETWEEN first AND last
\*     AND (status IS NULL OR status = 'PENDING')
PendingClaims(cl, u, first, last) ==
    {r \in cl : r.user_id = u /\ first <= r.date /\ r.date <= last
                /\ r.status = "PENDING"}

\* The settlement paid_select_driver stores in user_data. counted_claims,
\* counted_logs and counted_ot are history fields: the ids of the rows whose
\* amount, hours and duration the sums above added up; settled_for is a
\* history field too, the worker whose rows were read.
Settlement(ud, u, today) ==
    LET first == FirstDay(today)
        last == LastDay(today)
        logs == PeriodLogs(clock_logs, u, first, last)
        salary == (CHOOSE r \in DriverRows(u) : TRUE).monthly_salary
    IN [ud EXCEPT
          !.target_user_id = u,
          !.settled_for = u,
          !.has_figures = TRUE,
          !.monthly_salary = salary,
          !.work_days = Cardinality({r.date : r \in {x \in logs : ~x.is_off}}),
          !.off_days = Cardinality({r.date : r \in {x \in logs : x.is_off}}),
          !.month_hours = SumHours(logs),
          !.ot_hours = SumDuration(ClosedOt(ot_logs, u, first, last)),
          !.claims_amount = SumAmount(PendingClaims(claims, u, first, last)),
          !.first_day = first,
          !.last_day = last,
          !.counted_claims = {r.id : r \in PendingClaims(claims, u, first, last)},
          !.counted_logs = {r.id : r \in {x \in logs : LogHours(x) > 0}},
          !.counted_ot = {r.id : r \in ClosedOt(ot_logs, u, first, last)}]

\* The salary conversation is registered before the settlement
\* conversation: while it waits for a text it takes every text of its user.
SalaryIdle(a) == conv[a].salary = "END"

\* /paid: for administrators only; lists the workers.
paid_start(a) ==
    /\ SalaryIdle(a)
    /\ IF a \notin ADMIN_IDS
       THEN /\ Say(a, "admins_only")
            /\ conv' = [conv EXCEPT ![a].paid = "END"]
       ELSE IF drivers = {}
       THEN /\ Say(a, "no_workers")
            /\ conv' = [conv EXCEPT ![a].paid = "END"]
       ELSE /\ Say(a, "select_worker")
            /\ conv' = [conv EXCEPT ![a].paid = "PAID_SELECT_DRIVER"]
    /\ UNCHANGED <<acq, now, drivers, clock_logs, ot_logs, claims, salary_payments,
                   monthly_reports, tx, user_data>>

\* A text in state PAID_SELECT_DRIVER: the cancel button, a text whose first
\* word is no number, or a worker id.
paid_select_driver(a, kind, target) ==
    /\ SalaryIdle(a)
    /\ conv[a].paid = "PAID_SELECT_DRIVER"
    /\ CASE kind = "cancel" ->
              /\ Say(a, "cancelled")
              /\ conv' = [conv EXCEPT ![a].paid = "END"]
              /\ UNCHANGED user_data
         [] kind = "invalid" ->
              /\ Say(a, "select_valid_worker")
              /\ UNCHANGED <<conv, user_data>>
         [] OTHER ->
              IF DriverRows(target) = {}
              THEN /\ Say(a, "worker_not_found")
                   /\ conv' = [conv EXCEPT ![a].paid = "END"]
                   /\ user_data' = [user_data EXCEPT ![a].target_user_id = target]
              ELSE IF \E r \in PeriodLogs(clock_logs, target, FirstDay(DateOf(now)),
                                          LastDay(DateOf(now))) : LogRaises(r)
              THEN \* except Exception: the handler answers and ends
                   /\ Say(a, "select_error")
                   /\ conv' = [conv EXCEPT ![a].paid = "END"]
                   /\ user_data' = [user_data EXCEPT ![a].target_user_id = target]
              ELSE /\ Say(a, "salary_summary")
                   /\ conv' = [conv EXCEPT ![a].paid = "PAID_CONFIRM"]
                   /\ user_data' = [user_data EXCEPT
                                      ![a] = Settlement(user_data[a], target, DateOf(now))]
    /\ UNCHANGED <<acq, now, drivers, clock_logs, ot_logs, claims, salary_payments,
                   monthly_reports, tx>>

\* The five tables paid_confirm writes, as one value.
Database ==
    [salary_payments |-> salary_payments, monthly_reports |-> monthly_reports,
     claims |-> claims, clock_logs |-> clock_logs, ot_logs |-> ot_logs]

\* An upsert in place of the INSERT: the new row replaces the rows of the same
\* worker and period.
InsertPayment_Replace(db, ud) ==
    LET u == ud.target_user_id
        kept == {r \in db.salary_payments :
                    ~(r.user_id = u /\ r.period_start = ud.first_day)} IN
    [db EXCEPT !.salary_payments = kept \cup
        {[id |-> Cardinality(@) + 1, user_id |-> u,
          salary_amount |-> ud.monthly_salary, claims_amount |-> ud.claims_amount,
          total_amount |-> FloatAdd(ud.monthly_salary, ud.claims_amount),
          work_days |-> ud.work_days, off_days |-> ud.off_days,
          work_hours |-> ud.month_hours, ot_hours |-> ud.ot_hours,
          period_start |-> ud.first_day, period_end |-> ud.last_day,
          counted_claims |-> ud.counted_claims, counted_logs |-> ud.counted_logs,
          counted_ot |-> ud.counted_ot,
          marked_claims |-> {r.id : r \in PendingClaims(db.claims, u, ud.first_day, ud.last_day)},
          marked_logs |-> {r.id : r \in PeriodLogs(db.clock_logs, u, ud.first_day, ud.last_day)},
          marked_ot |-> {r.id : r \in PeriodOt(db.ot_logs, u, ud.first_day, ud.last_day)}]}]

\* 1. INSERT INTO salary_payments. marked_claims, marked_logs and marked_ot
\* are history fields: the ids of the rows the UPDATEs 3, 4.1 and 4.2 of the
\* same transaction match.
InsertPayment(db, ud) ==
    LET u == ud.target_user_id IN
    [db EXCEPT !.salary_payments = @ \cup
        {[id |-> Cardinality(@) + 1, user_id |-> u,
          salary_amount |-> ud.monthly_salary, claims_amount |-> ud.claims_amount,
          total_amount |-> FloatAdd(ud.monthly_salary, ud.claims_amount),
          work_days |-> ud.work_days, off_days |-> ud.off_days,
          work_hours |-> ud.month_hours, ot_hours |-> ud.ot_hours,
          period_start |-> ud.first_day, period_end |-> ud.last_day,
          counted_claims |-> ud.counted_claims, counted_logs |-> ud.counted_logs,
          counted_ot |-> ud.counted_ot,
          marked_claims |-> {r.id : r \in PendingClaims(db.claims, u, ud.first_day, ud.last_day)},
          marked_logs |-> {r.id : r \in PeriodLogs(db.clock_logs, u, ud.first_day, ud.last_day)},
          marked_ot |-> {r.id : r \in PeriodOt(db.ot_logs, u, ud.first_day, ud.last_day)}]}]

\* 2. INSERT INTO monthly_reports ... ON CONFLICT (user_id, report_date) DO UPDATE
UpsertReport(db, ud) ==
    [db EXCEPT !.monthly_reports =
        {r \in @ : ~(r.user_id = ud.target_user_id /\ r.report_date = ud.first_day)}
        \cup {[user_id |-> ud.target_user_id, report_date |-> ud.first_day,
               total_claims |-> ud.claims_amount,
               total_salary |-> FloatAdd(ud.monthly_salary, ud.claims_amount)]}]

\* An UPDATE that flips the status of every claim of the period: PENDING to
\* PAID and PAID back to PENDING.
MarkClaimsPaid_Reopen(db, ud) ==
    LET hit == {r \in db.claims : r.user_id = ud.target_user_id
                    /\ ud.first_day <= r.date /\ r.date <= ud.last_day} IN
    [db EXCEPT !.claims = {IF r \in hit
                           THEN [r EXCEPT !.status = IF @ = "PAID" THEN "PENDING" ELSE "PAID"]
                           ELSE r : r \in @}]

\* 3. UPDATE claims SET status = 'PAID' WHERE user_id, date BETWEEN, pending
MarkClaimsPaid(db, ud) ==
    LET hit == PendingClaims(db.claims, ud.target_user_id, ud.first_day, ud.last_day) IN
    [db EXCEPT !.claims = {IF r \in hit THEN [r EXCEPT !.status = "PAID"] ELSE r : r \in @}]

\* 4.1 UPDATE clock_logs SET paid = TRUE WHERE user_id, date BETWEEN
MarkLogsPaid(db, ud) ==
    LET hit == PeriodLogs(db.clock_logs, ud.target_user_id, ud.first_day, ud.last_day) IN
    [db EXCEPT !.clock_logs = {IF r \in hit THEN [r EXCEPT !.paid = TRUE] ELSE r : r \in @}]

\* 4.2 UPDATE ot_logs SET paid = TRUE WHERE user_id, date BETWEEN
MarkOtPaid(db, ud) ==
    LET hit == PeriodOt(db.ot_logs, ud.target_user_id, ud.first_day, ud.last_day) IN
    [db EXCEPT !.ot_logs = {IF r \in hit THEN [r EXCEPT !.paid = TRUE] ELSE r : r \in @}]

\* The statements of paid_confirm's transaction that ran before statement
\* number fail_at raised (all five when fail_at = 0).
RunStatements(db, ud, fail_at) ==
    LET n == IF fail_at = 0 THEN 5 ELSE fail_at - 1
        s1 == IF n >= 1 THEN InsertPayment(db, ud) ELSE db
        s2 == IF n >= 2 THEN UpsertReport(s1, ud) ELSE s1
        s3 == IF n >= 3 THEN MarkClaimsPaid(s2, ud) ELSE s2
        s4 == IF n >= 4 THEN MarkLogsPaid(s3, ud) ELSE s3
    IN IF n >= 5 THEN MarkOtPaid(s4, ud) ELSE s4

\* A paid_confirm that runs the transaction before it looks at the text: a
\* text that is neither button commits the settlement too.
paid_confirm_AnyText(a, kind, fail_at) ==
    /\ SalaryIdle(a)
    /\ conv[a].paid = "PAID_CONFIRM"
    /\ CASE kind = "cancel" ->
              /\ Say(a, "cancelled")
              /\ conv' = [conv EXCEPT ![a].paid = "END"]
              /\ UNCHANGED <<salary_payments, monthly_reports, claims, clock_logs,
                             ot_logs, user_data>>
         [] kind = "other" /\ user_data[a].has_figures ->
              /\ Cardinality(salary_payments) < MaxPayments
              /\ LET after == RunStatements(Database, user_data[a], 0)
                 IN /\ salary_payments' = after.salary_payments
                    /\ monthly_reports' = after.monthly_reports
                    /\ claims' = after.claims
                    /\ clock_logs' = after.clock_logs
                    /\ ot_logs' = after.ot_logs
              /\ Say(a, "confirm_or_cancel")
              /\ UNCHANGED <<conv, user_data>>
         [] kind = "other" /\ ~user_data[a].has_figures ->
              /\ Say(a, "confirm_or_cancel")
              /\ UNCHANGED <<conv, salary_payments, monthly_reports, claims,
                             clock_logs, ot_logs, user_data>>
         [] OTHER ->
              IF ~user_data[a].has_figures
              THEN \* KeyError on context.user_data[...]: the error handler answers
                   /\ Say(a, "error")
                   /\ UNCHANGED <<conv, salary_payments, monthly_reports, claims,
                                  clock_logs, ot_logs, user_data>>
              ELSE /\ Cardinality(salary_payments) < MaxPayments
                   /\ LET after == PutConn(Database,
                                           RunStatements(Database, user_data[a], fail_at),
                                           fail_at = 0)
                      IN /\ salary_payments' = after.salary_payments
                         /\ monthly_reports' = after.monthly_reports
                         /\ claims' = after.claims
                         /\ clock_logs' = after.clock_logs
                         /\ ot_logs' = after.ot_logs
                   /\ Say(a, IF fail_at = 0 THEN "payment_confirmed" ELSE "payment_error")
                   /\ conv' = [conv EXCEPT ![a].paid = "END"]
                   /\ user_data' = [user_data EXCEPT ![a] = NoUserData]
    /\ UNCHANGED <<acq, now, drivers, tx>>

\* A text in state PAID_CONFIRM: the cancel button, any other text, or the
\* confirm button; fail_at is the statement of the transaction that raises
\* (0: none).
paid_confirm(a, kind, fail_at) ==
    /\ SalaryIdle(a)
    /\ conv[a].paid = "PAID_CONFIRM"
    /\ CASE kind = "cancel" ->
              /\ Say(a, "cancelled")
              /\ conv' = [conv EXCEPT ![a].paid = "END"]
              /\ UNCHANGED <<salary_payments, monthly_reports, claims, clock_logs,
                             ot_logs, user_data>>
         [] kind = "other" ->
              /\ Say(a, "confirm_or_cancel")
              /\ UNCHANGED <<conv, salary_payments, monthly_reports, claims,
                             clock_logs, ot_logs, user_data>>
         [] OTHER ->
              IF ~user_data[a].has_figures
              THEN \* KeyError on context.user_data[...]: the error handler answers
                   /\ Say(a, "error")
                   /\ UNCHANGED <<conv, salary_payments, monthly_reports, claims,
                                  clock_logs, ot_logs, user_data>>
              ELSE /\ Cardinality(salary_payments) < MaxPayments
                   /\ LET after == PutConn(Database,
                                           RunStatements(Database, user_data[a], fail_at),
                                           fail_at = 0)
                      IN /\ salary_payments' = after.salary_payments
                         /\ monthly_reports' = after.monthly_reports
                         /\ claims' = after.claims
                         /\ clock_logs' = after.clock_logs
                         /\ ot_logs' = after.ot_logs
                   /\ Say(a, IF fail_at = 0 THEN "payment_confirmed" ELSE "payment_error")
                   /\ conv' = [conv EXCEPT ![a].paid = "END"]
                   /\ user_data' = [user_data EXCEPT ![a] = NoUserData]
    /\ UNCHANGED <<acq, now, drivers, tx>>

PaidTexts == {"cancel", "invalid", "worker"}
ConfirmTexts == {"cancel", "other", "confirm"}
FailAt == 0..5

\* The ledger of worker 1 at tick 2, built with the handlers' own writes:
\* day 0 clocked in at 0 and out at 1, day 1 clocked in at 2 and still open.
SeedLogs ==
    UpsertClockIn(SetClockOut(UpsertClockIn({}, 1, DateOf(0), 0), 1, DateOf(0), 1),
                  1, DateOf(2), 2)

\* One overtime session of day 0 opened at 0 and closed at 1, one of day 1
\* opened at 2 and still open (the two INSERTs and the UPDATE of ot).
SeedOt ==
    {[id |-> 1, user_id |-> 1, date |-> DateOf(0), start_time |-> 0,
      end_time |-> 1, duration |-> 1, paid |-> FALSE],
     [id |-> 2, user_id |-> 1, date |-> DateOf(2), start_time |-> 2,
      end_time |-> NULL, duration |-> 0, paid |-> FALSE]}

\* The state after worker 1 sent /clockin with a location and /ot at tick 0,
\* /clockout and /ot at tick 1, and /clockin with a location and /ot at tick 2.
PayrollSeed ==
    /\ now = 2
    /\ clock_logs = SeedLogs
    /\ ot_logs = SeedOt
    /\ drivers = AddHours(EnsureDriver({}, 1, START_SALARY), 1, SumHours(clock_logs))
    /\ claims = {}
    /\ salary_payments = {}
    /\ monthly_reports = {}
    /\ tx = [c \in Conns |-> IdleTx]
    /\ acq = [u \in Users |-> IdleAcq]
    /\ conv = [u \in Users |-> NoConv]
    /\ user_data = [u \in Users |-> NoUserData]
    /\ reply = [user |-> 1, msg |-> "ot_started"]

InitPayroll == PayrollSeed

\* The claim and settlement conversations over that ledger, within the day.
NextPayroll ==
    \/ \E u \in Workers : claim_start(u)
    \/ \E u \in Workers, o \in BOOLEAN : claim_type(u, o)
    \/ \E u \in Workers : claim_other_type(u)
    \/ \E u \in Workers, m \in {NULL, 0} \cup Amounts : claim_amount(u, m)
    \/ \E u \in Workers : claim_proof(u)
    \/ \E a \in Users : paid_start(a)
    \/ \E a \in ADMIN_IDS, k \in PaidTexts, w \in Users : paid_select_driver(a, k, w)
    \/ \E a \in ADMIN_IDS, k \in ConfirmTexts, f \in FailAt : paid_confirm(a, k, f)

SpecPayroll == InitPayroll /\ [][NextPayroll]_vars

\* The claims rows claim_proof has inserted before the settlements below: up
\* to SeedClaims rows of worker 1 and of administrator MaxWorkers + 1 (who
\* uses the bot as a worker too), each submitted on the last day of the month
\* before, on day 0 or on day 1.
SeedClaimDates == {FirstDay(0) - 1, DateOf(0), DateOf(2)}
SeedClaimRow(i) ==
    {[id |-> i, user_id |-> u, amount |-> m, date |-> d,
      photo_file_id |-> "photo", status |-> "PENDING"] :
        u \in {1, MaxWorkers + 1}, m \in Amounts, d \in SeedClaimDates}

RECURSIVE SeedClaimSets(_)
SeedClaimSets(n) ==
    IF n = 0 THEN {{}}
    ELSE SeedClaimSets(n - 1) \cup
         {S \cup {r} : S \in {T \in SeedClaimSets(n - 1) : Cardinality(T) = n - 1},
                       r \in SeedClaimRow(n)}

\* The ledger of PayrollSeed with the administrator registered by /start and
\* claims already submitted.
InitSettle ==
    /\ now = 2
    /\ clock_logs = SeedLogs
    /\ ot_logs = SeedOt
    /\ drivers = EnsureDriver(AddHours(EnsureDriver({}, 1, START_SALARY), 1,
                                       SumHours(clock_logs)),
                              MaxWorkers + 1, START_SALARY)
    /\ claims \in SeedClaimSets(SeedClaims)
    /\ salary_payments = {}
    /\ monthly_reports = {}
    /\ tx = [c \in Conns |-> IdleTx]
    /\ acq = [u \in Users |-> IdleAcq]
    /\ conv = [u \in Users |-> NoConv]
    /\ user_data = [u \in Users |-> NoUserData]
    /\ reply = [user |-> 1, msg |-> "ot_started"]

\* The settlement conversation of one administrator over that ledger.
NextSettle ==
    \/ paid_start(MaxWorkers + 1)
    \/ \E k \in PaidTexts, w \in Users : paid_select_driver(MaxWorkers + 1, k, w)
    \/ \E k \in ConfirmTexts, f \in FailAt : paid_confirm(MaxWorkers + 1, k, f)

SpecSettle == InitSettle /\ [][NextSettle]_vars

\* Ledgers of worker 1 at tick 3 whose record of day 1 holds texts the
\* column accepts: day 0 is clocked in at 0 and out at 1; day 1 has a
\* clock-in time or a garbled text, and no clock-out, a clock-out time or a
\* garbled text.
ParseSeedLogs ==
    {SetClockOut(UpsertClockIn(SetClockOut(UpsertClockIn({}, 1, DateOf(0), Strftime(0)),
                                           1, DateOf(0), Strftime(1)),
                               1, DateOf(2), cin),
                 1, DateOf(2), cout) :
        cin \in {Strftime(2), GARBLED}, cout \in {NULL, Strftime(3), GARBLED}}

InitParse ==
    /\ now = 3
    /\ clock_logs \in ParseSeedLogs
    /\ ot_logs = {}
    /\ drivers = AddHours(EnsureDriver({}, 1, START_SALARY), 1, SumHours(clock_logs))
    /\ claims = {}
    /\ salary_payments = {}
    /\ monthly_reports = {}
    /\ tx = [c \in Conns |-> IdleTx]
    /\ acq = [u \in Users |-> IdleAcq]
    /\ conv = [u \in Users |-> NoConv]
    /\ user_data = [u \in Users |-> NoUserData]
    /\ reply = [user |-> 1, msg |-> "clocked_in"]

\* The settlement conversation of one administrator over those ledgers.
SpecParse == InitParse /\ [][NextSettle]_vars

\* ---------------------------------------------------------------- reports
\* The dispatcher asks the handlers in the order of their registration:
\* previousreport, checkstate, viewclaims, then claim, paid and clockin. A
\* conversation in a state that takes any text takes every text of its user,
\* commands included, unless the text is its own entry command.
PrevIdle(a) == conv[a].previousreport = "END"
CheckIdle(a) == PrevIdle(a) /\ conv[a].checkstate = "END"
ViewIdle(a) == CheckIdle(a) /\ conv[a].viewclaims = "END"
NoTextState(a) ==
    /\ ViewIdle(a)
    /\ conv[a].claim \in {"END", "CLAIM_PROOF"}
    /\ conv[a].salary = "END"
    /\ conv[a].paid = "END"

\* ------------------------------------------------------ salary conversation
\* UPDATE drivers SET monthly_salary = s WHERE user_id = u
SetSalary(rows, u, s) ==
    {IF r.user_id = u THEN [r EXCEPT !.monthly_salary = s] ELSE r : r \in rows}

\* The conversations registered before the salary conversation leave the
\* text to it.
SalaryTurn(a) ==
    /\ ViewIdle(a)
    /\ conv[a].claim \in {"END", "CLAIM_PROOF"}

\* A salary_start that skips the ADMIN_IDS test.
salary_start_Anyone(a) ==
    /\ SalaryTurn(a)
    /\ IF drivers = {}
       THEN /\ Say(a, "no_workers")
            /\ conv' = [conv EXCEPT ![a].salary = "END"]
       ELSE /\ Say(a, "select_worker_salary")
            /\ conv' = [conv EXCEPT ![a].salary = "SALARY_SELECT_DRIVER"]
    /\ UNCHANGED <<acq, now, drivers, clock_logs, ot_logs, claims, salary_payments,
                   monthly_reports, tx, user_data>>

\* /salary: for administrators only; lists the workers. The command
\* re-enters the conversation from any of its states.
salary_start(a) ==
    /\ SalaryTurn(a)
    /\ IF a \notin ADMIN_IDS
       THEN /\ Say(a, "admins_only")
            /\ conv' = [conv EXCEPT ![a].salary = "END"]
       ELSE IF drivers = {}
       THEN /\ Say(a, "no_workers")
            /\ conv' = [conv EXCEPT ![a].salary = "END"]
       ELSE /\ Say(a, "select_worker_salary")
            /\ conv' = [conv EXCEPT ![a].salary = "SALARY_SELECT_DRIVER"]
    /\ UNCHANGED <<acq, now, drivers, clock_logs, ot_logs, claims, salary_payments,
                   monthly_reports, tx, user_data>>

\* A text in state SALARY_SELECT_DRIVER: the cancel button, a text without a
\* number in brackets, or a worker button. The button's id goes to
\* user_data['target_user_id'] (its name, shown in the replies only, is not
\* modelled).
salary_select_driver(a, kind, target) ==
    /\ SalaryTurn(a)
    /\ conv[a].salary = "SALARY_SELECT_DRIVER"
    /\ CASE kind = "cancel" ->
              /\ Say(a, "cancelled")
              /\ conv' = [conv EXCEPT ![a].salary = "END"]
              /\ UNCHANGED user_data
         [] kind = "invalid" ->
              /\ Say(a, "select_valid_worker")
              /\ UNCHANGED <<conv, user_data>>
         [] OTHER ->
              /\ Say(a, "enter_salary")
              /\ conv' = [conv EXCEPT ![a].salary = "SALARY_ENTER_AMOUNT"]
              /\ user_data' = [user_data EXCEPT ![a].target_user_id = target]
    /\ UNCHANGED <<acq, now, drivers, clock_logs, ot_logs, claims, salary_payments,
                   monthly_reports, tx>>

\* A text in state SALARY_ENTER_AMOUNT: the cancel button, a text float()
\* rejects, a negative number, or an amount.
salary_enter_amount(a, kind, amount) ==
    /\ SalaryTurn(a)
    /\ conv[a].salary = "SALARY_ENTER_AMOUNT"
    /\ CASE kind = "cancel" ->
              /\ Say(a, "cancelled")
              /\ conv' = [conv EXCEPT ![a].salary = "END"]
              /\ UNCHANGED user_data
         [] kind = "invalid" ->
              /\ Say(a, "enter_valid_number")
              /\ UNCHANGED <<conv, user_data>>
         [] kind = "negative" ->
              /\ Say(a, "salary_negative")
              /\ UNCHANGED <<conv, user_data>>
         [] OTHER ->
              /\ Say(a, "salary_update_summary")
              /\ conv' = [conv EXCEPT ![a].salary = "SALARY_CONFIRM"]
              /\ user_data' = [user_data EXCEPT ![a].new_salary = amount]
    /\ UNCHANGED <<acq, now, drivers, clock_logs, ot_logs, claims, salary_payments,
                   monthly_reports, tx>>

\* A text in state SALARY_CONFIRM: the cancel button, any other text, or the
\* confirm button; failed tells whether the UPDATE raised. A key missing from
\* user_data raises inside the try as well.
salary_confirm(a, kind, failed) ==
    /\ SalaryTurn(a)
    /\ conv[a].salary = "SALARY_CONFIRM"
    /\ CASE kind = "cancel" ->
              /\ Say(a, "cancelled")
              /\ conv' = [conv EXCEPT ![a].salary = "END"]
              /\ UNCHANGED <<drivers, user_data>>
         [] kind = "other" ->
              /\ Say(a, "confirm_or_cancel")
              /\ UNCHANGED <<conv, drivers, user_data>>
         [] OTHER ->
              /\ IF failed \/ user_data[a].new_salary = NULL
                    \/ user_data[a].target_user_id = NULL
                 THEN /\ Say(a, "salary_error")
                      /\ UNCHANGED drivers
                 ELSE /\ Say(a, "salary_updated")
                      /\ drivers' = SetSalary(drivers, user_data[a].target_user_id,
                                              user_data[a].new_salary)
              /\ conv' = [conv EXCEPT ![a].salary = "END"]
              /\ user_data' = [user_data EXCEPT ![a] = NoUserData]
    /\ UNCHANGED <<acq, now, clock_logs, ot_logs, claims, salary_payments,
                   monthly_reports, tx>>

SalaryTexts == {"cancel", "invalid", "negative", "amount"}
Salaries == 0..MaxAmount

\* The ledger of PayrollSeed with the administrator registered by /start and
\* one claim of worker 1 submitted on day 0.
InitSalary ==
    /\ now = 2
    /\ clock_logs = SeedLogs
    /\ ot_logs = SeedOt
    /\ drivers = EnsureDriver(AddHours(EnsureDriver({}, 1, START_SALARY), 1,
                                       SumHours(clock_logs)),
                              MaxWorkers + 1, START_SALARY)
    /\ claims = {[id |-> 1, user_id |-> 1, amount |-> 1, date |-> DateOf(0),
                   photo_file_id |-> "photo", status |-> "PENDING"]}
    /\ salary_payments = {}
    /\ monthly_reports = {}
    /\ tx = [c \in Conns |-> IdleTx]
    /\ acq = [u \in Users |-> IdleAcq]
    /\ conv = [u \in Users |-> NoConv]
    /\ user_data = [u \in Users |-> NoUserData]
    /\ reply = [user |-> 1, msg |-> "ot_started"]

\* The two registered people of that ledger: worker 1 and the administrator.
Registered == {1, MaxWorkers + 1}

\* The salary and settlement conversations of the registered people.
NextSalary ==
    \/ \E a \in Registered : salary_start(a)
    \/ \E a \in Registered, k \in PaidTexts, w \in Registered :
          salary_select_driver(a, k, w)
    \/ \E a \in Registered, k \in SalaryTexts, m \in Salaries :
          salary_enter_amount(a, k, m)
    \/ \E a \in Registered, k \in ConfirmTexts, f \in BOOLEAN : salary_confirm(a, k, f)
    \/ \E a \in Registered : paid_start(a)
    \/ \E a \in Registered, k \in PaidTexts, w \in Registered :
          paid_select_driver(a, k, w)
    \/ \E a \in Registered, k \in ConfirmTexts, f \in FailAt : paid_confirm(a, k, f)

SpecSalary == InitSalary /\ [][NextSalary]_vars

\* EXTRACT(YEAR ...), EXTRACT(MONTH ...) of a date
MonthOf(d) == d \div DaysPerMonth

\* The entry point of a report conversation: administrators only, then
\* show_workers_page, which ends the conversation when drivers is empty.
ReportStart(a, handler, state) ==
    /\ IF a \notin ADMIN_IDS
       THEN /\ Say(a, "admins_only")
            /\ conv' = [conv EXCEPT ![a][handler] = "END"]
       ELSE IF drivers = {}
       THEN /\ Say(a, "no_workers")
            /\ conv' = [conv EXCEPT ![a][handler] = "END"]
       ELSE /\ Say(a, "select_worker")
            /\ conv' = [conv EXCEPT ![a][handler] = state]
    /\ UNCHANGED <<acq, now, drivers, clock_logs, ot_logs, claims, salary_payments,
                   monthly_reports, tx, user_data>>

previousreport_start(a) ==
    ReportStart(a, "previousreport", "PREVIOUSREPORT_SELECT_WORKER")

checkstate_start(a) ==
    PrevIdle(a) /\ ReportStart(a, "checkstate", "CHECKSTATE_SELECT_USER")

viewclaims_start(a) ==
    CheckIdle(a) /\ ReportStart(a, "viewclaims", "VIEWCLAIMS_SELECT_USER")

\* The texts of a worker selection: a navigation text (handle_page_navigation
\* compares it with other button texts and returns None), a text that is no
\* number, or a worker id.
SelectTexts == {"nav", "invalid", "worker"}

\* A worker selection that stores the selected worker and asks for the month
\* (viewclaims_select_user, previousreport_select_worker).
SelectWorker(a, handler, state, kind, target) ==
    /\ CASE kind = "nav" -> UNCHANGED <<reply, conv, user_data>>
         [] kind = "invalid" ->
              /\ Say(a, "invalid_selection")
              /\ UNCHANGED <<conv, user_data>>
         [] OTHER ->
              IF DriverRows(target) = {}
              THEN /\ Say(a, "worker_not_found")
                   /\ UNCHANGED <<conv, user_data>>
              ELSE /\ Say(a, "select_month")
                   /\ conv' = [conv EXCEPT ![a][handler] = state]
                   /\ user_data' = [user_data EXCEPT ![a].selected_worker = target]
    /\ UNCHANGED <<acq, now, drivers, clock_logs, ot_logs, claims, salary_payments,
                   monthly_reports, tx>>

\* A checkstate_select_user that marks the rows it reports as paid.
checkstate_select_user_Marking(a, kind, target) ==
    /\ PrevIdle(a)
    /\ conv[a].checkstate = "CHECKSTATE_SELECT_USER"
    /\ CASE kind = "nav" -> UNCHANGED <<reply, conv, clock_logs>>
         [] kind = "invalid" ->
              /\ Say(a, "select_valid_worker")
              /\ UNCHANGED <<conv, clock_logs>>
         [] OTHER ->
              IF DriverRows(target) = {}
              THEN /\ Say(a, "worker_not_found")
                   /\ UNCHANGED <<conv, clock_logs>>
              ELSE /\ Say(a, "worker_status")
                   /\ conv' = [conv EXCEPT ![a].checkstate = "END"]
                   /\ clock_logs' = {IF r.user_id = target THEN [r EXCEPT !.paid = TRUE]
                                     ELSE r : r \in clock_logs}
    /\ UNCHANGED <<acq, now, drivers, ot_logs, claims, salary_payments,
                   monthly_reports, tx, user_data>>

\* A text in state CHECKSTATE_SELECT_USER: the SELECTs over drivers,
\* clock_logs, ot_logs and claims and the status message.
checkstate_select_user(a, kind, target) ==
    /\ PrevIdle(a)
    /\ conv[a].checkstate = "CHECKSTATE_SELECT_USER"
    /\ CASE kind = "nav" -> UNCHANGED <<reply, conv>>
         [] kind = "invalid" ->
              /\ Say(a, "select_valid_worker")
              /\ UNCHANGED conv
         [] OTHER ->
              IF DriverRows(target) = {}
              THEN /\ Say(a, "worker_not_found")
                   /\ UNCHANGED conv
              ELSE /\ Say(a, "worker_status")
                   /\ conv' = [conv EXCEPT ![a].checkstate = "END"]
    /\ UNCHANGED <<acq, now, drivers, clock_logs, ot_logs, claims, salary_payments,
                   monthly_reports, tx, user_data>>

viewclaims_select_user(a, kind, target) ==
    /\ CheckIdle(a)
    /\ conv[a].viewclaims = "VIEWCLAIMS_SELECT_USER"
    /\ SelectWorker(a, "viewclaims", "VIEWCLAIMS_SELECT_MONTH", kind, target)

previousreport_select_worker(a, kind, target) ==
    /\ conv[a].previousreport = "PREVIOUSREPORT_SELECT_WORKER"
    /\ SelectWorker(a, "previousreport", "PREVIOUSREPORT_SELECT_MONTH", kind, target)

\* The texts of a month selection: the cancel button, a text that is no
\* month, or a month.
MonthTexts == {"cancel", "invalid", "month"}

\* A text in state VIEWCLAIMS_SELECT_MONTH. context.user_data['selected_worker']
\* is read first and raises KeyError when another conversation cleared it.
viewclaims_select_month(a, kind, m) ==
    /\ CheckIdle(a)
    /\ conv[a].viewclaims = "VIEWCLAIMS_SELECT_MONTH"
    /\ IF user_data[a].selected_worker = NULL
       THEN /\ Say(a, "error")
            /\ UNCHANGED conv
       ELSE CASE kind = "cancel" ->
                   /\ Say(a, "cancelled")
                   /\ conv' = [conv EXCEPT ![a].viewclaims = "END"]
              [] kind = "invalid" ->
                   /\ Say(a, "invalid_month")
                   /\ UNCHANGED conv
              [] OTHER ->
                   /\ Say(a, IF \E r \in claims : /\ r.user_id = user_data[a].selected_worker
                                                   /\ MonthOf(r.date) = m
                             THEN "claims_report" ELSE "no_claims")
                   /\ conv' = [conv EXCEPT ![a].viewclaims = "END"]
    /\ UNCHANGED <<acq, now, drivers, clock_logs, ot_logs, claims, salary_payments,
                   monthly_reports, tx, user_data>>

\* A text in state PREVIOUSREPORT_SELECT_MONTH: the last salary_payments row
\* of the worker and month, and the claims of the month.
previousreport_select_month(a, kind, m) ==
    /\ conv[a].previousreport = "PREVIOUSREPORT_SELECT_MONTH"
    /\ CASE kind = "cancel" ->
              /\ Say(a, "cancelled")
              /\ conv' = [conv EXCEPT ![a].previousreport = "END"]
         [] kind = "invalid" ->
              /\ Say(a, "invalid_month")
              /\ UNCHANGED conv
         [] OTHER ->
              IF user_data[a].selected_worker = NULL
              THEN /\ Say(a, "error")
                   /\ UNCHANGED conv
              ELSE /\ Say(a, IF \E r \in salary_payments :
                                   /\ r.user_id = user_data[a].selected_worker
                                   /\ MonthOf(r.period_start) = m
                             THEN "payment_report" ELSE "no_payment_records")
                   /\ conv' = [conv EXCEPT ![a].previousreport = "END"]
    /\ UNCHANGED <<acq, now, drivers, clock_logs, ot_logs, claims, salary_payments,
                   monthly_reports, tx, user_data>>

\* /PDF: for administrators only; shows the three report buttons.
pdf_start(a) ==
    /\ NoTextState(a)
    /\ Say(a, IF a \in ADMIN_IDS THEN "select_report_type" ELSE "admins_only")
    /\ UNCHANGED <<acq, now, drivers, clock_logs, ot_logs, claims, salary_payments,
                   monthly_reports, tx, conv, user_data>>

PdfButtons == {"work_hours", "salary", "all"}

\* A press on a report button: the SELECTs of the report over drivers,
\* clock_logs and claims, and the document.
pdf_button_callback(a, report_type) ==
    /\ Say(a, IF a \in ADMIN_IDS THEN "report_sent" ELSE "admins_only_reports")
    /\ UNCHANGED <<acq, now, drivers, clock_logs, ot_logs, claims, salary_payments,
                   monthly_reports, tx, conv, user_data>>

\* viewclaims: the last pending claims of the sender.
viewclaims(u) ==
    /\ NoTextState(u)
    /\ Say(u, IF \E r \in claims : r.user_id = u /\ r.status = "PENDING"
              THEN "pending_claims" ELSE "no_pending_claims")
    /\ UNCHANGED <<acq, now, drivers, clock_logs, ot_logs, claims, salary_payments,
                   monthly_reports, tx, conv, user_data>>

\* The months an administrator asks a report for: the current one and the
\* one before.
ReportMonths == {MonthOf(0) - 1, MonthOf(0)}

\* The ledger of InitSettle with at most MaxClaims claims submitted.
InitReports == InitSettle /\ Cardinality(claims) <= MaxClaims

\* Worker 1 and one administrator asking for reports, the administrator
\* settling in between.
NextReports ==
    \/ \E a \in {1, MaxWorkers + 1} : previousreport_start(a)
    \/ \E a \in {1, MaxWorkers + 1} : checkstate_start(a)
    \/ \E a \in {1, MaxWorkers + 1} : viewclaims_start(a)
    \/ \E k \in SelectTexts, w \in Users :
          previousreport_select_worker(MaxWorkers + 1, k, w)
    \/ \E k \in SelectTexts, w \in Users : checkstate_select_user(MaxWorkers + 1, k, w)
    \/ \E k \in SelectTexts, w \in Users : viewclaims_select_user(MaxWorkers + 1, k, w)
    \/ \E k \in MonthTexts, m \in ReportMonths :
          previousreport_select_month(MaxWorkers + 1, k, m)
    \/ \E k \in MonthTexts, m \in ReportMonths :
          viewclaims_select_month(MaxWorkers + 1, k, m)
    \/ \E a \in {1, MaxWorkers + 1} : pdf_start(a)
    \/ \E a \in {1, MaxWorkers + 1}, t \in PdfButtons : pdf_button_callback(a, t)
    \/ \E u \in {1, MaxWorkers + 1} : viewclaims(u)
    \/ ViewIdle(MaxWorkers + 1) /\ NextSettle

SpecReports == InitReports /\ [][NextReports]_vars

NextAttendance ==
    \/ Tick
    \/ \E u \in Workers : start(u)
    \/ \E u \in Workers : clockin(u)
    \/ \E u \in Workers, a \in GeoAnswers : handle_location(u, a)
    \/ \E u \in Workers, c \in Conns : clockout_select(u, c)
    \/ \E c \in Conns, f \in ClockoutFailAt : clockout_commit(c, f)
    \/ \E u \in Workers, c \in Conns : offday_select(u, c)
    \/ \E c \in Conns : offday_commit(c)
    \/ \E u \in Workers, c \in Conns : bf_offday_select(u, c)
    \/ \E c \in Conns : bf_offday_commit(c)

\* The attendance handlers alone: no other handler writes clock_in,
\* clock_out or is_off, or inserts into clock_logs.
SpecAttendance == Init /\ [][NextAttendance]_vars

\* Clock-in and clock-out on a host whose clock may be set back.
NextSkew ==
    \/ Tick
    \/ SkewBack
    \/ \E u \in Workers : clockin(u)
    \/ \E u \in Workers : handle_location(u, "address")
    \/ \E u \in Workers, c \in Conns : clockout_select(u, c)
    \/ \E c \in Conns, f \in ClockoutFailAt : clockout_commit(c, f)

SpecSkew == Init /\ [][NextSkew]_vars

\* The /OT handler on its own, after /start.
NextOvertime ==
    \/ Tick
    \/ \E u \in Workers : start(u)
    \/ \E u \in Workers, c \in Conns : ot_select(u, c)
    \/ \E c \in Conns : ot_commit(c)

SpecOvertime == Init /\ [][NextOvertime]_vars

\* No handler is in the middle of its transaction.
Quiet == FreeConns = Conns

\* /OT handlers that follow one another: each starts when the one before it
\* has returned.
NextOvertimeSeq ==
    \/ Tick
    \/ \E u \in Workers : start(u)
    \/ \E u \in Workers, c \in Conns : Quiet /\ ot_select(u, c)
    \/ \E c \in Conns : ot_commit(c)

SpecOvertimeSeq == Init /\ [][NextOvertimeSeq]_vars

\* The same on a host whose clock may be set back.
NextOvertimeSkew ==
    \/ SkewBack
    \/ NextOvertimeSeq

SpecOvertimeSkew == Init /\ [][NextOvertimeSkew]_vars

\* Overtime toggles of a worker arriving while all connections are held.
NextPool ==
    \/ Tick
    \/ \E u \in Workers : start(u)
    \/ \E u \in Workers, c \in Conns : ot_select(u, c)
    \/ \E c \in Conns : ot_commit(c)
    \/ \E u \in Workers : get_db_connection_wait(u, "ot")
    \/ \E u \in Workers : get_db_connection_raise(u)

SpecPool == Init /\ [][NextPool]_vars

\* The state after worker 1 sent /clockin and a location at tick 1, the clock
\* was set back to tick 0 and the worker sent /clockout: the record of day 0
\* has clock-in 1 and clock-out 0, and total_hours went down by one.
SkewSeed ==
    /\ now = 0
    /\ clock_logs = SetClockOut(UpsertClockIn({}, 1, DateOf(1), Strftime(1)),
                                1, DateOf(0), Strftime(0))
    /\ drivers = AddHours(EnsureDriver({}, 1, START_SALARY), 1, 0 - 1)
    /\ ot_logs = {}
    /\ claims = {}
    /\ salary_payments = {}
    /\ monthly_reports = {}
    /\ tx = [c \in Conns |-> IdleTx]
    /\ acq = [u \in Users |-> IdleAcq]
    /\ conv = [u \in Users |-> NoConv]
    /\ user_data = [u \in Users |-> NoUserData]
    /\ reply = [user |-> 1, msg |-> "clocked_out"]

\* The settlement conversations of the administrators over that ledger.
NextSkewSettle ==
    \/ \E a \in Users : paid_start(a)
    \/ \E a \in ADMIN_IDS, k \in PaidTexts, w \in Users : paid_select_driver(a, k, w)
    \/ \E a \in ADMIN_IDS, k \in ConfirmTexts, f \in FailAt : paid_confirm(a, k, f)

SpecSkewSettle == SkewSeed /\ [][NextSkewSettle]_vars

\* The claim conversation of a worker, with /start, /clockin and /cancel.
NextClaims ==
    \/ Tick
    \/ \E u \in Workers : start(u)
    \/ \E u \in Workers : clockin(u)
    \/ \E u \in Workers : claim_start(u)
    \/ \E u \in Workers, o \in BOOLEAN : claim_type(u, o)
    \/ \E u \in Workers : claim_other_type(u)
    \/ \E u \in Workers, m \in AmountTexts : claim_amount(u, m)
    \/ \E u \in Workers : claim_proof(u)
    \/ \E u \in Workers : cancel(u)

SpecClaims == Init /\ [][NextClaims]_vars

\* Every handler of the bot.
Next ==
    \/ NextAttendance
    \/ SkewBack
    \/ NextClaims
    \/ \E u \in Workers, c \in Conns : ot_select(u, c)
    \/ \E c \in Conns : ot_commit(c)
    \/ NextPayroll

Spec == Init /\ [][Next]_vars

\* ------------------------------------------------- attendance: properties
\* A stored clock value that is a timestamp (not NULL, not 'OFF').
Clocked(v) == v # NULL /\ v # OFF

\* A step of handle_location by u that went past the geocoder.
ClockInStep(u) ==
    /\ conv[u].clock = "WAITING_LOCATION"
    /\ conv'[u].clock = "END"
    /\ reply'.msg # "no_location"

\* A step that ends an /offday handler holding connection c.
OffdayEnds(c) == tx[c].op \in {"offday", "bf_offday"} /\ tx'[c].op = "idle"

\* C6: for every worker and date at most one clock_logs row exists, and a
\* clock-in that meets an existing row of the day never fails.
C6_OneRecordPerWorkerDay ==
    /\ \A r1, r2 \in clock_logs :
          (r1.user_id = r2.user_id /\ r1.date = r2.date) => r1 = r2
    /\ reply.msg # "clockin_error"

\* Two clock-ins of one day met the same row: its clock_in is later than the
\* clock_out stored between them, and it is still the only row of that day.
C6_Witness ==
    \E r \in clock_logs :
        /\ Clocked(r.clock_in) /\ Clocked(r.clock_out) /\ r.clock_in > r.clock_out
        /\ reply.msg = "clocked_in"

\* C7: a row flagged is_off has no clock-in ('OFF' counts as none) and no
\* clock-out.
C7_OffDayExcludesClock ==
    \A r \in clock_logs : r.is_off => (~Clocked(r.clock_in) /\ r.clock_out = NULL)

\* C8: a clock-in that finds today's row clocked in and not clocked out is
\* refused and leaves the row as it was.
C8_SecondClockInRefused ==
    [][\A u \in Workers : \A r \in LogsOf(u, DateOf(now)) :
          (ClockInStep(u) /\ Clocked(r.clock_in) /\ r.clock_out = NULL)
              => (reply'.msg # "clocked_in" /\ r \in clock_logs')]_vars

\* C9: a clock-in that finds today's row an off-day is refused and leaves the
\* row an off-day without clock values.
C9_ClockInOnOffDayRefused ==
    [][\A u \in Workers : \A r \in LogsOf(u, DateOf(now)) :
          (ClockInStep(u) /\ r.is_off)
              => (reply'.msg # "clocked_in" /\ r \in clock_logs')]_vars

\* C10: an /offday whose row of the day holds a clock-in or a clock-out is
\* refused and changes nothing; any other /offday leaves the day's row an
\* off-day with both clock fields cleared.
C10_MarkOffDay ==
    [][\A c \in Conns : OffdayEnds(c) =>
          LET u == tx[c].user
              d == DateOf(tx[c].at)
          IN IF \E r \in LogsOf(u, d) : Clocked(r.clock_in) \/ r.clock_out # NULL
             THEN clock_logs' = clock_logs /\ reply'.msg \in {"offday_conflict", "offday_error"}
             ELSE \E r \in clock_logs' :
                      /\ r.user_id = u /\ r.date = d /\ r.is_off
                      /\ ~Clocked(r.clock_in) /\ r.clock_out = NULL]_vars

\* ------------------------------------------------- settlement: properties
\* C1: no claim, clock_logs row or overtime session is summed into more than
\* one salary_payments row.
C1_NoDoublePay ==
    \A p1, p2 \in salary_payments :
        p1.id # p2.id =>
            /\ p1.counted_claims \cap p2.counted_claims = {}
            /\ p1.counted_logs \cap p2.counted_logs = {}
            /\ p1.counted_ot \cap p2.counted_ot = {}

\* A step of paid_select_driver by a that stores a settlement.
SelectStep(a) ==
    /\ conv[a].paid = "PAID_SELECT_DRIVER"
    /\ conv'[a].paid = "PAID_CONFIRM"

\* Worker u has a payment for the period and every row of the period is
\* settled: no claim is pending, every clock_logs and ot_logs row is paid.
AllSettled(u, first, last) ==
    /\ \E p \in salary_payments : p.user_id = u /\ p.period_start = first
    /\ PendingClaims(claims, u, first, last) = {}
    /\ \A r \in PeriodLogs(clock_logs, u, first, last) : r.paid
    /\ \A r \in PeriodOt(ot_logs, u, first, last) : r.paid

\* C2: a settlement computed when the period is already paid and all its
\* rows are settled has a claims amount of 0 and 0 working hours.
C2_SettledPeriodComputesZero ==
    [][\A a \in ADMIN_IDS :
          (SelectStep(a) /\ AllSettled(user_data'[a].target_user_id,
                                       user_data'[a].first_day,
                                       user_data'[a].last_day))
              => (user_data'[a].claims_amount = 0 /\ user_data'[a].month_hours = 0)]_vars

\* A step that makes one of paid_confirm's writes visible: a salary_payments
\* or monthly_reports row, a claim turned PAID, a row turned paid.
SettlementWrite ==
    \/ salary_payments' # salary_payments
    \/ monthly_reports' # monthly_reports
    \/ \E r \in claims' : r.status = "PAID" /\ r \notin claims
    \/ \E r \in clock_logs' : r.paid /\ r \notin clock_logs
    \/ \E r \in ot_logs' : r.paid /\ r \notin ot_logs

\* A step that makes all of paid_confirm's writes visible together: one new
\* salary_payments row, the report of its period, and no claim of the
\* period left pending, no clock_logs or ot_logs row of it left unpaid.
WholeSettlement ==
    \E p \in salary_payments' :
        /\ p \notin salary_payments
        /\ salary_payments' = salary_payments \cup {p}
        /\ \E m \in monthly_reports' :
              /\ m.user_id = p.user_id /\ m.report_date = p.period_start
              /\ m.total_salary = p.total_amount
        /\ PendingClaims(claims', p.user_id, p.period_start, p.period_end) = {}
        /\ \A r \in PeriodLogs(clock_logs', p.user_id, p.period_start, p.period_end) : r.paid
        /\ \A r \in PeriodOt(ot_logs', p.user_id, p.period_start, p.period_end) : r.paid
        /\ Cardinality(claims') = Cardinality(claims)
        /\ Cardinality(clock_logs') = Cardinality(clock_logs)
        /\ Cardinality(ot_logs') = Cardinality(ot_logs)

\* C3: every step that makes any write of paid_confirm visible makes all of
\* them visible; a paid_confirm whose transaction fails changes no table.
C3_FinalizeAtomic ==
    [][/\ SettlementWrite => WholeSettlement
       /\ reply'.msg = "payment_error" =>
             UNCHANGED <<salary_payments, monthly_reports, claims, clock_logs, ot_logs>>]_vars

\* A paid_confirm failed after an earlier one went through: one payment is
\* recorded, and a claim submitted since is still pending.
C3_Witness ==
    /\ reply.msg = "payment_error"
    /\ Cardinality(salary_payments) = 1
    /\ \E r \in claims : r.status = "PENDING"
    /\ \A r \in clock_logs : r.paid

\* C4: the claims a payment's transaction marks PAID are the claims summed
\* into its claims amount.
C4_MarkedClaimsAreCounted ==
    \A p \in salary_payments : p.marked_claims = p.counted_claims

\* C5: no step marks a clock_logs row without clock-out, or an overtime
\* session without end time, as paid.
C5_OpenRowsStayUnpaid ==
    [][/\ \A r \in clock_logs : (r.clock_out = NULL /\ ~r.paid) => r \in clock_logs'
       /\ \A r \in ot_logs : (r.end_time = NULL /\ ~r.paid) => r \in ot_logs']_vars

\* -------------------------------------------------- clock-out: properties
\* Today's row of u, if any, holds no clock-in time or is an off-day.
NoClockInToday(u) ==
    \A r \in LogsOf(u, DateOf(now)) : ~Clocked(r.clock_in) \/ r.is_off

\* C11: while today's row of a worker is missing, without clock-in or an
\* off-day, no /clockout of that worker gets past its check, and the step
\* that answers "not clocked in" changes neither clock_logs nor drivers.
C11_ClockOutNeedsClockIn ==
    [][\A u \in Workers : NoClockInToday(u) =>
          /\ \A c \in Conns :
                (tx'[c].op = "clockout" /\ tx'[c].user = u) => tx'[c] = tx[c]
          /\ (reply'.msg = "not_clocked_in" /\ reply'.user = u)
                => UNCHANGED <<clock_logs, drivers>>]_vars

\* A /clockout was refused on a day marked off.
C11_Witness ==
    /\ reply.msg = "not_clocked_in"
    /\ \E r \in LogsOf(reply.user, DateOf(now)) : r.is_off

\* A step that ends the /clockout handler holding connection c.
ClockoutEnds(c) == tx[c].op = "clockout" /\ tx'[c].op = "idle"

\* C12: a /clockout that finds the row of its day already clocked out (the
\* clock-in lies before the stored clock-out, so no clock-in came since) is
\* refused: it changes neither clock_logs nor drivers.
C12_SecondClockOutRefused ==
    [][\A c \in Conns :
          (/\ ClockoutEnds(c)
           /\ \E r \in LogsOf(tx[c].user, DateOf(tx[c].at)) :
                 Clocked(r.clock_in) /\ Clocked(r.clock_out) /\ r.clock_in < r.clock_out)
              => (UNCHANGED <<clock_logs, drivers>> /\ reply'.msg # "clocked_out")]_vars

\* C13: a /clockout whose time lies before the clock-in it read stores no
\* clock-out and does not change the worker's total_hours.
C13_NegativeDurationRejected ==
    [][\A c \in Conns :
          (ClockoutEnds(c) /\ Clocked(tx[c].seen) /\ tx[c].at < tx[c].seen)
              => (UNCHANGED <<clock_logs, drivers>> /\ reply'.msg # "clocked_out")]_vars

C15_ReClockInOverwrites ==
    [][\A u \in Workers : \A r \in LogsOf(u, DateOf(now)) :
          (ClockInStep(u) /\ Clocked(r.clock_in) /\ Clocked(r.clock_out))
              => /\ reply'.msg = "clocked_in"
                 /\ \E q \in clock_logs' :
                       /\ q.id = r.id /\ q.clock_in = Strftime(now)
                       /\ q.clock_out = r.clock_out /\ ~q.is_off
                 /\ Cardinality(clock_logs') = Cardinality(clock_logs)]_vars

\* A worker whose day was closed with hours counted clocked in again at a
\* later tick of the same day: the row's clock-in is the new time.
C15_Witness ==
    /\ reply.msg = "clocked_in"
    /\ \E r \in LogsOf(reply.user, DateOf(now)) :
          /\ r.clock_in = now /\ Clocked(r.clock_out) /\ r.clock_out < now
    /\ \E d \in DriverRows(reply.user) : d.total_hours > 0

\* --------------------------------------------------- overtime: properties
\* A step that ends the /OT handler holding connection c.
OtEnds(c) == tx[c].op = "ot" /\ tx'[c].op = "idle"

\* What the /OT handler on c read is what ot_logs still holds for its day:
\* no other /OT of the worker committed since, as when toggles follow one
\* another.
OtReadCurrent(c) ==
    LET ongoing == OngoingOt(tx[c].user, DateOf(tx[c].at))
    IN IF tx[c].has_log THEN \E r \in ongoing : r.id = tx[c].seen ELSE ongoing = {}

\* C16: a toggle that follows the toggle that opened the worker's only
\* session leaves exactly that one session, closed, with a duration of end
\* minus start that is not negative.
C16_TwoTogglesOneClosedSession ==
    [][\A c \in Conns :
          (/\ OtEnds(c) /\ OtReadCurrent(c)
           /\ \E r \in ot_logs :
                 /\ {x \in ot_logs : x.user_id = tx[c].user} = {r}
                 /\ r.end_time = NULL)
              => \E q \in ot_logs' :
                    /\ {x \in ot_logs' : x.user_id = tx[c].user} = {q}
                    /\ q.end_time # NULL
                    /\ q.duration = q.end_time - q.start_time
                    /\ q.duration >= 0]_vars

\* C17: no worker has two sessions of one date without end time.
C17_OneOpenSessionPerDay ==
    \A r1, r2 \in ot_logs :
        (r1.user_id = r2.user_id /\ r1.date = r2.date
         /\ r1.end_time = NULL /\ r2.end_time = NULL) => r1 = r2

\* C18: a toggle of a worker who has an open session, of whatever date,
\* closes an open session of that worker and opens none.
C18_ToggleClosesOpenSession ==
    [][\A c \in Conns :
          (/\ OtEnds(c) /\ OtReadCurrent(c)
           /\ \E r \in ot_logs : r.user_id = tx[c].user /\ r.end_time = NULL)
              => /\ \E r \in ot_logs, q \in ot_logs' :
                       /\ r.user_id = tx[c].user /\ r.end_time = NULL
                       /\ q.id = r.id /\ q.end_time # NULL
                 /\ Cardinality(ot_logs') = Cardinality(ot_logs)]_vars

\* C19: a toggle whose time lies before the start of the session it is to
\* close leaves ot_logs as it is and does not answer "completed".
C19_NegativeOtRejected ==
    [][\A c \in Conns :
          (/\ OtEnds(c) /\ tx[c].has_log
           /\ \E r \in ot_logs :
                 r.id = tx[c].seen /\ r.end_time = NULL /\ tx[c].at < r.start_time)
              => (UNCHANGED ot_logs /\ reply'.msg # "ot_completed")]_vars

\* ----------------------------------------------------- claims: properties
\* C20: every claims row that a step creates has an amount above 0, a photo
\* and status PENDING, and the step is the one that takes the conversation
\* of its worker from CLAIM_PROOF to the end; a step that answers
\* "cancelled" creates none.
C20_ClaimRowsWellFormed ==
    [][/\ \A r \in claims' :
             (\A q \in claims : q.id # r.id) =>
                 /\ r.amount # NAN /\ r.amount > 0
                 /\ r.photo_file_id = "photo"
                 /\ r.status = "PENDING"
                 /\ conv[r.user_id].claim = "CLAIM_PROOF"
                 /\ conv'[r.user_id].claim = "END"
       /\ reply'.msg = "cancelled" => claims' = claims]_vars

\* A step in which some administrator's Confirm Payment commits.
FinalizeStep ==
    /\ \E a \in ADMIN_IDS : conv[a].paid = "PAID_CONFIRM" /\ conv'[a].paid = "END"
    /\ reply'.msg = "payment_confirmed"

\* C21: a claim whose status is PAID keeps that status in every step, a claim
\* keeps its other fields and is never removed, and a step that changes the
\* status of a PENDING claim is a committed Confirm Payment that sets it PAID.
C21_ClaimStatusOneWay ==
    [][\A r \in claims :
          \E q \in claims' :
             /\ q.id = r.id
             /\ r.status = "PAID" => q.status = "PAID"
             /\ q.status # r.status =>
                   r.status = "PENDING" /\ q.status = "PAID" /\ FinalizeStep]_vars

\* A second settlement of the worker committed after the one that marked the
\* claim PAID, and the claim is still PAID.
C21_Witness ==
    /\ \E r \in claims : r.status = "PAID"
    /\ \E p, q \in salary_payments :
          p.id < q.id /\ p.marked_claims # {} /\ q.marked_claims = {}

\* C22: every row of salary_payments is still there, with the same values,
\* after every step; a step in which Confirm Payment commits adds exactly one
\* row, and every other step adds none.
C22_PaymentsAppendOnly ==
    [][/\ salary_payments \subseteq salary_payments'
       /\ Cardinality(salary_payments') =
             Cardinality(salary_payments) + (IF FinalizeStep THEN 1 ELSE 0)]_vars

\* Two settlements of one worker and period were committed one after the
\* other and both rows are in the table.
C22_Witness ==
    \E p, q \in salary_payments :
        /\ p.id = 1 /\ q.id = 2
        /\ p.user_id = q.user_id /\ p.period_start = q.period_start

\* C23: the claims amount of a settlement computed for a worker is the sum
\* of the amounts of that worker's claims that are PENDING and dated within
\* the current month; the claims it counts are exactly those, none of them
\* PAID, and none of them was counted by a payment committed before.
C23_ClaimsTotalIsPendingInPeriod ==
    [][\A a \in ADMIN_IDS :
          SelectStep(a) =>
             LET ud == user_data'[a]
                 due == {r \in claims :
                            /\ r.user_id = ud.target_user_id
                            /\ r.status = "PENDING"
                            /\ FirstDay(DateOf(now)) <= r.date
                            /\ r.date <= LastDay(DateOf(now))}
             IN /\ ud.claims_amount = SumAmount(due)
                /\ ud.counted_claims = {r.id : r \in due}
                /\ \A r \in claims :
                      r.status = "PAID" => r.id \notin ud.counted_claims
                /\ \A p \in salary_payments :
                      p.counted_claims \cap ud.counted_claims = {}]_vars

\* An earlier settlement summed two pending claims of the month into its
\* claims amount and marked them PAID; the worker also has a pending claim of
\* the month before; the settlement computed now counts none of the three.
C23_Witness ==
    \E a \in ADMIN_IDS :
        /\ conv[a].paid = "PAID_CONFIRM" /\ user_data[a].has_figures
        /\ \E p \in salary_payments :
              /\ p.user_id = user_data[a].target_user_id
              /\ Cardinality(p.counted_claims) = 2
              /\ p.claims_amount = 2 * MaxAmount
              /\ \A r \in claims : r.id \in p.counted_claims => r.status = "PAID"
        /\ \E r \in claims :
              /\ r.user_id = user_data[a].target_user_id
              /\ r.status = "PENDING" /\ r.date < user_data[a].first_day
        /\ user_data[a].counted_claims = {}
        /\ user_data[a].claims_amount = 0

\* The rows of worker u in the current month that are no off-day and carry
\* both a clock-in and a clock-out time.
FullyClocked(u) ==
    {r \in PeriodLogs(clock_logs, u, FirstDay(DateOf(now)), LastDay(DateOf(now))) :
        ~r.is_off /\ Clocked(r.clock_in) /\ Clocked(r.clock_out)}

\* C24: the work days of a computed settlement are the distinct dates of the
\* month that have a record which is no off-day and has both clock-in and
\* clock-out; a record with a clock-in only is not counted.
C24_WorkDaysAreFullyClocked ==
    [][\A a \in ADMIN_IDS :
          SelectStep(a) =>
             user_data'[a].work_days =
                Cardinality({r.date : r \in FullyClocked(user_data'[a].target_user_id)})]_vars

RECURSIVE SumSpans(_)
\* The sum of clock_out - clock_in over a set of fully clocked records.
SumSpans(S) ==
    IF S = {} THEN 0
    ELSE LET r == CHOOSE x \in S : TRUE
         IN (r.clock_out - r.clock_in) + SumSpans(S \ {r})

\* C25: the work hours of a computed settlement are the sum of clock-out
\* minus clock-in over the records of the month that are no off-day and
\* fully clocked, whatever the worker's lifetime counter total_hours holds.
C25_WorkHoursFromTimestamps ==
    [][\A a \in ADMIN_IDS :
          SelectStep(a) =>
             user_data'[a].month_hours =
                SumSpans(FullyClocked(user_data'[a].target_user_id))]_vars

\* C26: a settlement computed for a worker whose monthly salary is unset or
\* not above 0 is based on a positive amount, the configured default, and
\* not on the unset, zero or negative salary; a salary above 0 is the base
\* as stored.
C26_DefaultRateFallback ==
    [][\A a \in ADMIN_IDS :
          SelectStep(a) =>
             \A d \in DriverRows(user_data'[a].target_user_id) :
                IF d.monthly_salary # NULL /\ d.monthly_salary > 0
                THEN user_data'[a].monthly_salary = d.monthly_salary
                ELSE user_data'[a].monthly_salary > 0]_vars

\* The replies of the handlers of the claim conversation.
ClaimReplies ==
    {"select_claim_type", "specify_claim_type", "enter_amount", "enter_valid_number",
     "amount_must_be_positive", "send_proof", "claim_submitted", "claim_error",
     "cancelled"}

\* A step taken by a handler of the claim conversation.
ClaimStep ==
    /\ reply'.msg \in ClaimReplies
    /\ reply' # reply \/ conv' # conv \/ claims' # claims \/ user_data' # user_data

\* C27: a step of the claim conversation changes no table other than claims,
\* and no step at all changes the balance of a drivers row.
C27_ClaimWritesOnlyClaims ==
    [][/\ ClaimStep =>
             UNCHANGED <<drivers, clock_logs, ot_logs, salary_payments, monthly_reports>>
       /\ \A d \in drivers :
             \E e \in drivers' : e.user_id = d.user_id /\ e.balance = d.balance]_vars

\* A claim was submitted by a registered worker, whose balance is the 0.0 the
\* row was created with.
C27_Witness ==
    /\ reply.msg = "claim_submitted"
    /\ \E c \in claims :
          /\ c.user_id = reply.user
          /\ \E d \in drivers : d.user_id = c.user_id /\ d.balance = 0

\* The replies of paid_select_driver, checkstate_select_user, viewclaims,
\* viewclaims_select_month, previousreport_select_month and
\* pdf_button_callback.
ReadReplies ==
    {"salary_summary", "select_valid_worker", "worker_not_found", "worker_status",
     "claims_report", "no_claims", "invalid_month", "payment_report",
     "no_payment_records", "report_sent", "admins_only_reports", "pending_claims",
     "no_pending_claims", "cancelled", "error"}

\* C28: a step in which one of the reporting handlers answers leaves
\* drivers, clock_logs, ot_logs, claims and salary_payments as they were.
C28_ReportsReadOnly ==
    [][(reply'.msg \in ReadReplies /\ reply' # reply) =>
          UNCHANGED <<drivers, clock_logs, ot_logs, claims, salary_payments>>]_vars

\* The report of a past payment was shown: the payment row, the rows it
\* marked paid and the claim it marked PAID are in the tables.
C28_Witness ==
    /\ reply.msg = "payment_report"
    /\ \E p \in salary_payments : p.marked_claims # {} /\ p.marked_logs # {}
    /\ \E r \in claims : r.status = "PAID"
    /\ \E r \in clock_logs : r.paid

\* C29: every location message of a registered worker who was asked for the
\* location ends in a clock-in, whatever the geocoding lookup answered: the
\* row of the day holds the current time as clock-in and the reply confirms.
C29_GeocodingFailureStillClocksIn ==
    [][\A u \in Workers :
          (conv[u].clock = "WAITING_LOCATION" /\ conv'[u].clock = "END"
           /\ ForeignKeyOk(u))
              => /\ reply'.msg = "clocked_in"
                 /\ \E r \in clock_logs' :
                       /\ r.user_id = u /\ r.date = DateOf(now)
                       /\ r.clock_in = Strftime(now)]_vars

\* C30: after every step in which the bot answers a worker, that worker has a
\* drivers row, whichever command the worker sent first; and a drivers row,
\* once there, is there after every step.
C30_WorkerRowOnFirstCommand ==
    [][/\ \A u \in Workers :
             (reply'.user = u /\ reply' # reply) => \E e \in drivers' : e.user_id = u
       /\ \A d \in drivers : \E e \in drivers' : e.user_id = d.user_id]_vars

\* C31: a get_db_connection call waits only after a getconn() that found no
\* free connection, and waits once; the step that follows the wait is the
\* second getconn(), which ends the call: with a free connection the handler
\* runs on it, without one the error leaves the handler, answered by the
\* error handler, and no table and no connection changes.
C31_OneBoundedRetry ==
    [][\A u \in Users :
          /\ acq'[u].attempts <= 1
          /\ (acq[u].pc = "idle" /\ acq'[u].pc = "sleeping") =>
                (FreeConns = {} /\ acq'[u].attempts = 1)
          /\ (acq[u].pc = "sleeping" /\ acq'[u] # acq[u]) =>
                /\ acq'[u].pc = "idle"
                /\ IF FreeConns = {}
                   THEN /\ reply' = [user |-> u, msg |-> "error"]
                        /\ UNCHANGED <<tx, drivers, clock_logs, ot_logs, claims,
                                       salary_payments, monthly_reports>>
                   ELSE \E c \in FreeConns :
                           /\ tx'[c].op = acq[u].op /\ tx'[c].user = u
                           /\ tx'[c].at = acq[u].at]_vars

\* The second getconn() of a call failed: the error was answered while every
\* connection is still held by another handler.
C31_Witness ==
    /\ reply.msg = "error"
    /\ acq[reply.user].pc = "idle"
    /\ FreeConns = {}

\* C32: selecting a worker who has a record with an unparseable timestamp
\* does not end in the error reply: the settlement is computed, and its work
\* hours are the hours of the worker's other records of the month.
C32_UnparseableRowSkipped ==
    [][\A a \in ADMIN_IDS :
          conv[a].paid = "PAID_SELECT_DRIVER" =>
             /\ ~(reply'.msg = "select_error" /\ reply' # reply)
             /\ SelectStep(a) =>
                   user_data'[a].month_hours =
                      SumSpans({r \in FullyClocked(user_data'[a].target_user_id) :
                                   ~Unparseable(r)})]_vars

\* A settlement was computed for a worker whose record of the day has a
\* garbled clock-in and a clock-out: its work hours are those of the other
\* record.
C32_Witness ==
    \E a \in ADMIN_IDS :
        /\ conv[a].paid = "PAID_CONFIRM" /\ user_data[a].has_figures
        /\ \E r \in clock_logs :
              /\ r.user_id = user_data[a].target_user_id
              /\ r.clock_in = GARBLED /\ r.clock_out = Strftime(3)
        /\ user_data[a].month_hours = 1
        /\ user_data[a].counted_logs = {1}

\* A step of paid_confirm by a that inserts a salary_payments row.
PaymentStep(a) ==
    /\ conv[a].paid = "PAID_CONFIRM" /\ SalaryIdle(a)
    /\ salary_payments' # salary_payments

\* C33: the payment row paid_confirm inserts is for the worker whose
\* settlement paid_select_driver computed in the same /paid conversation and
\* carries that settlement's figures, whatever other conversations of the
\* administrator ran in between.
C33_PaymentForSelectedWorker ==
    [][\A a \in ADMIN_IDS :
          PaymentStep(a) =>
             \A p \in salary_payments' \ salary_payments :
                /\ p.user_id = user_data[a].settled_for
                /\ p.salary_amount = user_data[a].monthly_salary
                /\ p.claims_amount = user_data[a].claims_amount
                /\ p.work_hours = user_data[a].month_hours
                /\ p.work_days = user_data[a].work_days]_vars

\* C34: the settlement is committed only by the confirm button: the tables
\* change only in a step from PAID_CONFIRM that answers 'payment confirmed';
\* the cancel button and any other text leave every table as it was; and
\* PAID_CONFIRM is entered only by the paid_select_driver that stored a
\* settlement.
C34_CommitOnlyOnConfirm ==
    [][/\ Database' # Database =>
             \E a \in ADMIN_IDS :
                /\ conv[a].paid = "PAID_CONFIRM" /\ conv'[a].paid = "END"
                /\ user_data[a].has_figures
                /\ reply' = [user |-> a, msg |-> "payment_confirmed"]
       /\ \A a \in ADMIN_IDS :
             /\ (/\ conv[a].paid = "PAID_CONFIRM"
                 /\ reply'.user = a
                 /\ reply'.msg \in {"cancelled", "confirm_or_cancel"}) =>
                   Database' = Database /\ drivers' = drivers
             /\ (conv'[a].paid = "PAID_CONFIRM" /\ conv[a].paid # "PAID_CONFIRM") =>
                   /\ conv[a].paid = "PAID_SELECT_DRIVER"
                   /\ reply' = [user |-> a, msg |-> "salary_summary"]
                   /\ user_data'[a].has_figures
                   /\ user_data'[a].settled_for = user_data'[a].target_user_id]_vars

\* The administrator answered a computed settlement with a text that is
\* neither button: the conversation still waits and nothing is paid.
C34_Witness ==
    \E a \in ADMIN_IDS :
        /\ conv[a].paid = "PAID_CONFIRM" /\ user_data[a].has_figures
        /\ reply = [user |-> a, msg |-> "confirm_or_cancel"]
        /\ salary_payments = {}
        /\ \E c \in claims : c.status = "PENDING"

\* C35: a step taken for a message of a person who is not an administrator
\* changes no worker's monthly salary, inserts no payment and sets no claim
\* to PAID, and leaves that person outside the salary and settlement
\* conversations.
C35_NonAdminCannotPay ==
    [][reply'.user \notin ADMIN_IDS =>
          /\ \A d \in drivers :
                \E e \in drivers' :
                   e.user_id = d.user_id /\ e.monthly_salary = d.monthly_salary
          /\ salary_payments' = salary_payments
          /\ \A c \in claims' : c.status = "PAID" => c \in claims
          /\ \A u \in Users \ ADMIN_IDS :
                conv'[u].salary = "END" /\ conv'[u].paid = "END"]_vars

\* Worker 1 sent /salary or /paid and was turned away while the
\* administrator's settlement of a pending claim waits for its confirmation.
C35_Witness ==
    /\ reply = [user |-> 1, msg |-> "admins_only"]
    /\ \E a \in ADMIN_IDS :
          conv[a].paid = "PAID_CONFIRM" /\ user_data[a].claims_amount > 0
    /\ \E c \in claims : c.status = "PENDING"
    /\ salary_payments = {}

\* The records of worker u that carry both a clock-in and a clock-out time.
ClosedRecords(u) ==
    {r \in clock_logs : r.user_id = u /\ Clocked(r.clock_in) /\ Clocked(r.clock_out)}

\* C36: the total_hours of every worker is the sum of clock-out minus
\* clock-in over the worker's records that have both times, so no record's
\* hours are added more than once.
C36_TotalHoursIsSumOfRecords ==
    \A d \in drivers : d.total_hours = SumSpans(ClosedRecords(d.user_id))

\* C37: while the clock only moves forward, every record that has both a
\* clock-in and a clock-out time has its clock-in at or before its clock-out.
C37_ClockInBeforeClockOut ==
    \A r \in clock_logs :
        (Clocked(r.clock_in) /\ Clocked(r.clock_out)) => r.clock_in <= r.clock_out

\* A worker clocked in at tick 0 and out at tick 1 has 2 hours on the
\* lifetime counter: the record's one hour was added by two clock-outs.
C36_Witness ==
    /\ now = 1
    /\ \A c \in Conns : tx[c].op = "idle"
    /\ \E d \in drivers :
          /\ d.total_hours = 2
          /\ \E r \in ClosedRecords(d.user_id) : r.clock_in = 0 /\ r.clock_out = 1
          /\ Cardinality(ClosedRecords(d.user_id)) = 1

\* A worker's record of day 0 was clocked out at tick 0 and clocked in again
\* at tick 1, no handler running.
C37_Witness ==
    /\ now = 1
    /\ \A c \in Conns : tx[c].op = "idle"
    /\ reply.msg = "clocked_in"
    /\ \E r \in clock_logs : r.clock_in = 1 /\ r.clock_out = 0

\* C38: /clockout reads and updates only the record of its own date: every
\* record of another date or worker stays as it was, and a worker without a
\* record of the current date gets no further than the answer 'not clocked
\* in', which changes neither clock_logs nor drivers, whatever records of
\* earlier dates are open.
C38_ClockOutTouchesTodayOnly ==
    [][/\ \A c \in Conns : ClockoutEnds(c) =>
             /\ \A r \in clock_logs :
                   (r.user_id # tx[c].user \/ r.date # DateOf(tx[c].at))
                      => r \in clock_logs'
             /\ Cardinality(clock_logs') = Cardinality(clock_logs)
       /\ \A u \in Workers : LogsOf(u, DateOf(now)) = {} =>
             /\ \A c \in Conns :
                   (tx'[c].op = "clockout" /\ tx'[c].user = u) => tx'[c] = tx[c]
             /\ (reply'.msg = "not_clocked_in" /\ reply'.user = u)
                   => UNCHANGED <<clock_logs, drivers>>]_vars

\* A worker who clocked in the day before and never clocked out sent
\* /clockout: it was refused, the record is still open and no hours were
\* added.
C38_Witness ==
    /\ reply.msg = "not_clocked_in"
    /\ LogsOf(reply.user, DateOf(now)) = {}
    /\ \E r \in clock_logs :
          /\ r.user_id = reply.user /\ r.date < DateOf(now)
          /\ Clocked(r.clock_in) /\ r.clock_out = NULL
    /\ \A d \in DriverRows(reply.user) : d.total_hours = 0

====
